---- MODULE Spec2Model ----
(***************************************************************************)
(* Tender ingestion pipeline of bidbase-tender-listing: the sync-tenders   *)
(* edge function (two variants of the handler: the sequential loop with    *)
(* the three-step upsertTender, and the Promise.allSettled variant calling *)
(* the upsert_tender stored procedure) over the tenders and                *)
(* tender_documents tables; the classification and status functions of    *)
(* transformRelease; and, on the client side, withRetry, the debounce      *)
(* hooks and useUrlSync.                                                   *)
(***************************************************************************)
EXTENDS Integers, Sequences, FiniteSets, Bags, TLC

\* ------------------------------------------------------------------ bounds
\* number of sync requests served in one behaviour
MaxSyncs == 2
\* instants of the wall clock and of closing dates: 0..MaxTime
MaxTime == 3
\* the debounce delay, in ticks of the timer clock
DebounceDelay == 2
\* the timer clock runs over 0..MaxClock
MaxClock == 5
\* calls of the debounced function / of the setters of the search hook
MaxCalls == 3
\* calls of updateUrl
MaxUrlCalls == 2
\* length of the long pages served by the feed in the batch specification
LongLen == 11

\* ------------------------------------------------------- program constants
\* errors.slice(0, 10)
ErrorSampleLimit == 10

NULL == "null"
NoOcid == "none"
\* handler invocations that can be in flight at once: two overlapping runs
Runs == {1, 2}

\* ------------------------------------------------------------ feed content
\* Raw releases the feed can publish.  description "" or NULL is an absent
\* description; hasTender = FALSE is a release without its tender block;
\* title = NULL is a release whose tender has no title.
RelRoad ==
    [ocid |-> "ocds-1", hasTender |-> TRUE, title |-> "Road construction",
     description |-> "Resurfacing", documents |-> <<"spec.pdf">>]
RelRoadV2 ==
    [ocid |-> "ocds-1", hasTender |-> TRUE, title |-> "Road construction (amended)",
     description |-> "", documents |-> <<"addendum.pdf">>]
RelIT ==
    [ocid |-> "ocds-2", hasTender |-> TRUE, title |-> "Network hardware",
     description |-> NULL, documents |-> <<>>]
RelNoTender ==
    [ocid |-> "ocds-2", hasTender |-> FALSE, title |-> NULL,
     description |-> NULL, documents |-> <<>>]
RelNoTitle ==
    [ocid |-> "ocds-1", hasTender |-> TRUE, title |-> NULL,
     description |-> NULL, documents |-> <<>>]

Ocids == {"ocds-1", "ocds-2"}

\* pages of the feed in the concurrent specification
ShortPages ==
    { <<>>, <<RelRoad>>, <<RelRoadV2>>, <<RelRoad, RelIT>>,
      <<RelNoTender, RelRoad>>, <<RelNoTitle, RelIT>> }

\* long pages: the first k releases are bad in the same way, the others good
LongPages ==
    { [i \in 1..LongLen |-> IF i <= k THEN bad ELSE RelRoad] :
        k \in (LongLen - 1)..LongLen, bad \in {RelNoTender, RelNoTitle} }

VARIABLES
    tenders,           \* table tenders: set of rows [id, ocid, title, description,
                       \*     created_at, updated_at]
    tender_documents,  \* table tender_documents: bag of rows [tender_id, doc]
    nextId,            \* gen_random_uuid(): the next fresh tender id
    now,               \* NOW(): the instant of the last upsert statement
    feed,              \* pages the external feed can answer with
    active,            \* handler slots that accept requests
    syncsLeft,         \* requests still to come
    pc,                \* position of each handler invocation
    variant,           \* "loop" or "settled": which handler serves the request
    releases,          \* the fetched page
    idx,               \* loop variant: index of the release being processed
    results,           \* outcome per release: pending / fulfilled / rejected
    processedCount, errorCount, errors,
    tenderData,        \* upsertTender: the record being written
    tenderId,          \* upsertTender: id returned by the tender upsert
    response,          \* the HTTP response of the invocation
    fetchResult,       \* history: none / failed / ok
    lastWrite,         \* history: per ocid, the record of the last upsert statement
    lastWriteAt,       \* history: per ocid, the instant of that statement
    call,              \* history: the upsertTender call in progress of each run
    lastCall,          \* history: the upsertTender call that completed last
    prevCall,          \* history: the one that completed before it
    today,             \* transformRelease: the instant new Date() reads
    rawRelease,        \* transformRelease: the release being normalized
    status,            \* transformRelease: the status derived last
    statusAt,          \* history: the instant of that derivation
    prevStatus,        \* history: the status derived before it
    ocdsRelease,       \* the release handed to mapProvince / categorizeIndustry
    province,          \* what mapProvince returned
    provinceBy,        \* history: the handler whose mapProvince ran
    industry,          \* what categorizeIndustry returned
    industryBy,        \* history: the handler whose categorizeIndustry ran
    maxRetries,        \* withRetry: its argument
    attempt,           \* withRetry: the loop counter
    retryPc,           \* withRetry: calling / sleeping / returned / thrown
    invoked,           \* history: how often operation() was called
    caught,            \* history: the error the last catch block received
    thrown,            \* what withRetry threw to its caller
    time,              \* the timer clock of the browser
    mounted,           \* the component using the hook is mounted
    timeoutRef,        \* useDebouncedCallback: the pending timeout, if any
    calls,             \* history: the calls of the debounced function
    fired,             \* history: the runs of the wrapped callback
    searchTerm,        \* useDebouncedSearch: state
    debouncedSearchTerm,
    filters,
    debounceTimeoutRef, \* useDebouncedSearch: the pending timeout, if any
    termSince,         \* history: the instant searchTerm took its value
    searchParams,      \* useUrlSync: the parameters of the current URL
    urlSync,           \* which useUrlSync the page uses: "guarded" / "unguarded"
    pushed,            \* history: the last updateUrl called router.push
    urlCalls,          \* history: the number of updateUrl calls
    lastOptions,       \* history: the options of the last updateUrl
    prevParams,        \* history: the parameters before the last updateUrl
    currentPage,       \* TenderListingPage: state
    pageSize,          \* TenderListingPage: state
    handled,           \* history: the handler of the listing page that ran last
    catalog,           \* get-tenders: the rows of table tenders it searches
    requestBody,       \* get-tenders: the parsed body of the request being served
    getPc,             \* get-tenders: idle / search / stats / options / done
    searchResults,     \* get-tenders: what rpc('search_tenders') answered
    rpcCalls,          \* history: the database calls made for the request
    getResponse,       \* get-tenders: the HTTP response
    releaseDate,       \* transformRelease: release.date, the publication instant
    date_closing,      \* transformRelease: the date_closing it returned last
    prevClosing        \* history: the date_closing it returned before that

dbVars == <<tenders, tender_documents, nextId, now>>
cfgVars == <<feed, active>>
runVars == <<pc, variant, releases, idx, results, processedCount, errorCount,
             errors, tenderData, tenderId, response, fetchResult>>
histVars == <<lastWrite, lastWriteAt, call, lastCall, prevCall>>
syncVars == <<dbVars, cfgVars, syncsLeft, runVars, histVars>>
statusVars == <<today, rawRelease, status, statusAt, prevStatus>>
classVars == <<ocdsRelease, province, provinceBy, industry, industryBy>>
retryVars == <<maxRetries, attempt, retryPc, invoked, caught, thrown>>
clockVars == <<time, mounted>>
debounceVars == <<timeoutRef, calls, fired>>
searchVars == <<searchTerm, debouncedSearchTerm, filters, debounceTimeoutRef,
                termSince>>
hookVars == <<clockVars, debounceVars, searchVars>>
urlVars == <<searchParams, urlSync, pushed, urlCalls, lastOptions, prevParams>>
listingVars == <<currentPage, pageSize, handled>>
getVars == <<catalog, requestBody, getPc, searchResults, rpcCalls, getResponse>>
closingVars == <<releaseDate, date_closing, prevClosing>>
extVars == <<listingVars, getVars, closingVars>>
pureVars == <<statusVars, classVars, retryVars, hookVars, urlVars, extVars>>
vars == <<syncVars, pureVars>>

\* ------------------------------------------------------------ pure helpers
Min(a, b) == IF a < b THEN a ELSE b

\* x || null
OrNull(x) == IF x \in {"", NULL} THEN NULL ELSE x

\* the rows a bulk insert adds, as a bag
BagOfSeq(s) ==
    [e \in {s[i] : i \in DOMAIN s} |-> Cardinality({i \in DOMAIN s : s[i] = e})]

\* transformRelease: throws a TypeError when the tender block is missing
TransformThrows(release) == ~release.hasTender

transformRelease(release) ==
    [ocid |-> release.ocid,
     title |-> release.title,
     description |-> OrNull(release.description),
     documents |-> release.documents]

\* ------------------------------------------------------------- the store
\* NOT NULL constraints of table tenders that a record can break
ViolatesNotNull(rec) == rec.ocid = NULL \/ rec.title = NULL

\* mutant: a plain INSERT, without the ON CONFLICT (ocid) clause
upsert_tender_insertOnly(rows, rec, freshId, instant) ==
    rows \cup { [id |-> freshId, ocid |-> rec.ocid, title |-> rec.title,
                 description |-> rec.description,
                 created_at |-> instant, updated_at |-> instant] }

\* mutant: a field-level merge, description = COALESCE(EXCLUDED.description, description)
upsert_tender_coalesce(rows, rec, freshId, instant) ==
    IF \E row \in rows : row.ocid = rec.ocid
    THEN { IF row.ocid = rec.ocid
           THEN [row EXCEPT !.title = rec.title,
                            !.description = IF rec.description = NULL
                                            THEN row.description ELSE rec.description,
                            !.updated_at = instant]
           ELSE row : row \in rows }
    ELSE rows \cup { [id |-> freshId, ocid |-> rec.ocid, title |-> rec.title,
                      description |-> rec.description,
                      created_at |-> instant, updated_at |-> instant] }

\* mutant: the sync replaces the table content by the record it writes
upsert_tender_truncate(rows, rec, freshId, instant) ==
    IF \E row \in rows : row.ocid = rec.ocid
    THEN { [row EXCEPT !.title = rec.title, !.description = rec.description,
                       !.updated_at = instant] :
                row \in {x \in rows : x.ocid = rec.ocid} }
    ELSE { [id |-> freshId, ocid |-> rec.ocid, title |-> rec.title,
            description |-> rec.description,
            created_at |-> instant, updated_at |-> instant] }

\* mutant: the update leaves updated_at as it was
upsert_tender_staleStamp(rows, rec, freshId, instant) ==
    IF \E row \in rows : row.ocid = rec.ocid
    THEN { IF row.ocid = rec.ocid
           THEN [row EXCEPT !.title = rec.title, !.description = rec.description]
           ELSE row : row \in rows }
    ELSE rows \cup { [id |-> freshId, ocid |-> rec.ocid, title |-> rec.title,
                      description |-> rec.description,
                      created_at |-> instant, updated_at |-> instant] }

\* mutant: on conflict the row is deleted and inserted anew
upsert_tender_replaceRow(rows, rec, freshId, instant) ==
    {row \in rows : row.ocid # rec.ocid}
        \cup { [id |-> freshId, ocid |-> rec.ocid, title |-> rec.title,
                 description |-> rec.description,
                 created_at |-> instant, updated_at |-> instant] }

\* INSERT INTO tenders ... ON CONFLICT (ocid) DO UPDATE SET ..., updated_at = NOW():
\* one statement; created_at and updated_at default to NOW() on insert
upsert_tender(rows, rec, freshId, instant) ==
    IF \E row \in rows : row.ocid = rec.ocid
    THEN { IF row.ocid = rec.ocid
           THEN [row EXCEPT !.title = rec.title, !.description = rec.description,
                            !.updated_at = instant]
           ELSE row : row \in rows }
    ELSE rows \cup { [id |-> freshId, ocid |-> rec.ocid, title |-> rec.title,
                      description |-> rec.description,
                      created_at |-> instant, updated_at |-> instant] }

\* RETURNING id / .select('id').single()
ReturnedId(rows, ocid) == (CHOOSE row \in rows : row.ocid = ocid).id

\* .from('tender_documents').delete().eq('tender_id', tenderId)
DeleteDocumentRows(docs, id) ==
    [e \in {x \in DOMAIN docs : x.tender_id # id} |-> docs[e]]

\* .from('tender_documents').insert(documentsWithTenderId)
InsertDocumentRows(docs, id, documents) ==
    docs (+) BagOfSeq([i \in DOMAIN documents |-> [tender_id |-> id, doc |-> documents[i]]])

\* the documents of one tender, as a bag of documents
DocsOf(docs, id) ==
    [d \in {e.doc : e \in {x \in DOMAIN docs : x.tender_id = id}} |->
        docs[[tender_id |-> id, doc |-> d]]]

HasRow(ocid) == \E row \in tenders : row.ocid = ocid

\* ------------------------------------------------------ status resolution
\* release.tender.status as the feed sends it (NULL: absent)
RawStatuses == {"active", "cancelled", "complete", "unsuccessful", NULL}

\* release.awards: absent, an empty array, or one award
NoAwards == -1
AwardCounts == {NoAwards, 0, 1}

\* tender.tenderPeriod.endDate read by new Date(...): absent or an instant
NoDate == -1
EndDates == {NoDate} \cup (0..MaxTime)

RawReleases == [status : RawStatuses, awards : AwardCounts, endDate : EndDates]

\* release.awards && release.awards.length > 0
HasAwards(release) == release.awards # NoAwards /\ release.awards > 0

\* mutant: the closing date is looked at before the awards
resolveStatus_closedFirst(release, instant) ==
    IF release.status = "cancelled" THEN "cancelled"
    ELSE IF release.endDate # NoDate /\ release.endDate < instant THEN "closed"
    ELSE IF release.status = "complete" \/ HasAwards(release) THEN "awarded"
    ELSE "open"

\* mutant: a passed closing date is ignored
resolveStatus_neverCloses(release, instant) ==
    IF release.status = "cancelled" THEN "cancelled"
    ELSE IF release.status = "complete" \/ HasAwards(release) THEN "awarded"
    ELSE "open"

\* transformRelease, "Determine status": the same chain in both handlers;
\* instant is what new Date() reads
resolveStatus(release, instant) ==
    IF release.status = "cancelled" THEN "cancelled"
    ELSE IF release.status = "complete" \/ HasAwards(release) THEN "awarded"
    ELSE IF release.endDate # NoDate /\ release.endDate < instant THEN "closed"
    ELSE "open"

NoRawRelease == [status |-> NULL, awards |-> NoAwards, endDate |-> NoDate]

\* no release is being normalized
StatusIdle ==
    /\ today = 0
    /\ rawRelease = NoRawRelease
    /\ status = "none"
    /\ statusAt = 0
    /\ prevStatus = "none"

\* ---------------------------------------------------------------- strings
UpperCase == "ABCDEFGHIJKLMNOPQRSTUVWXYZ"
LowerCase == "abcdefghijklmnopqrstuvwxyz"

CharAt(str, i) == SubSeq(str, i, i)

LowerChar(c) ==
    IF \E i \in 1..Len(UpperCase) : CharAt(UpperCase, i) = c
    THEN CharAt(LowerCase, CHOOSE i \in 1..Len(UpperCase) : CharAt(UpperCase, i) = c)
    ELSE c

\* String.prototype.toLowerCase
RECURSIVE toLowerCase(_)
toLowerCase(str) ==
    IF Len(str) = 0 THEN ""
    ELSE LowerChar(CharAt(str, 1)) \o toLowerCase(SubSeq(str, 2, Len(str)))

\* String.prototype.trim
RECURSIVE trim(_)
trim(str) ==
    IF Len(str) = 0 THEN ""
    ELSE IF CharAt(str, 1) = " " THEN trim(SubSeq(str, 2, Len(str)))
    ELSE IF CharAt(str, Len(str)) = " " THEN trim(SubSeq(str, 1, Len(str) - 1))
    ELSE str

\* String.prototype.includes
Includes(str, key) ==
    \E i \in 1..(Len(str) - Len(key) + 1) : SubSeq(str, i, i + Len(key) - 1) = key

\* a string in a condition: absent and empty are falsy
Truthy(x) == x \notin {"", NULL}

\* x || ''
OrEmpty(x) == IF x = NULL THEN "" ELSE x

\* ----------------------------------------------------- classification tables
\* PROVINCE_MAPPING of the loop handler, in declaration order
PROVINCE_MAPPING ==
    << <<"western cape", "Western Cape">>, <<"eastern cape", "Eastern Cape">>,
       <<"northern cape", "Northern Cape">>, <<"free state", "Free State">>,
       <<"kwazulu-natal", "KwaZulu-Natal">>, <<"kwazulu natal", "KwaZulu-Natal">>,
       <<"gauteng", "Gauteng">>, <<"mpumalanga", "Mpumalanga">>,
       <<"limpopo", "Limpopo">>, <<"north west", "North West">>,
       <<"northwest", "North West">>,
       <<"cape town", "Western Cape">>, <<"durban", "KwaZulu-Natal">>,
       <<"johannesburg", "Gauteng">>, <<"pretoria", "Gauteng">>,
       <<"tshwane", "Gauteng">>, <<"port elizabeth", "Eastern Cape">>,
       <<"gqeberha", "Eastern Cape">>, <<"bloemfontein", "Free State">>,
       <<"kimberley", "Northern Cape">>, <<"polokwane", "Limpopo">>,
       <<"nelspruit", "Mpumalanga">>, <<"mbombela", "Mpumalanga">>,
       <<"mafikeng", "North West">>, <<"pietermaritzburg", "KwaZulu-Natal">>,
       <<"wc", "Western Cape">>, <<"ec", "Eastern Cape">>,
       <<"nc", "Northern Cape">>, <<"fs", "Free State">>,
       <<"kzn", "KwaZulu-Natal">>, <<"gp", "Gauteng">>, <<"mp", "Mpumalanga">>,
       <<"lp", "Limpopo">>, <<"nw", "North West">> >>

\* PROVINCE_MAPPING of the compact handler
PROVINCE_MAPPING_compact ==
    << <<"western cape", "Western Cape">>, <<"eastern cape", "Eastern Cape">>,
       <<"northern cape", "Northern Cape">>, <<"free state", "Free State">>,
       <<"kwazulu-natal", "KwaZulu-Natal">>, <<"kwazulu natal", "KwaZulu-Natal">>,
       <<"gauteng", "Gauteng">>, <<"mpumalanga", "Mpumalanga">>,
       <<"limpopo", "Limpopo">>, <<"north west", "North West">>,
       <<"cape town", "Western Cape">>, <<"durban", "KwaZulu-Natal">>,
       <<"johannesburg", "Gauteng">>, <<"pretoria", "Gauteng">>,
       <<"port elizabeth", "Eastern Cape">>, <<"gqeberha", "Eastern Cape">>,
       <<"bloemfontein", "Free State">> >>

\* INDUSTRY_KEYWORDS of the loop handler, in declaration order
INDUSTRY_KEYWORDS ==
    << <<"Construction & Infrastructure",
         <<"construction", "building", "infrastructure", "road", "bridge",
           "housing", "civil engineering", "structural", "concrete", "steel",
           "architecture", "renovation", "maintenance", "repair", "plumbing",
           "electrical", "roofing">> >>,
       <<"Information Technology",
         <<"software", "hardware", "computer", "IT", "technology", "system",
           "network", "database", "programming", "development", "website",
           "application", "digital", "cyber", "cloud", "server",
           "telecommunications">> >>,
       <<"Healthcare & Medical",
         <<"medical", "health", "hospital", "clinic", "pharmaceutical",
           "medicine", "equipment", "surgical", "diagnostic", "therapy",
           "nursing", "dental", "laboratory", "radiology", "ambulance",
           "emergency">> >>,
       <<"Education & Training",
         <<"education", "school", "university", "training", "learning",
           "teaching", "curriculum", "textbook", "classroom", "student",
           "academic", "research", "library", "educational", "course",
           "workshop">> >>,
       <<"Transportation & Logistics",
         <<"transport", "vehicle", "fleet", "logistics", "delivery", "shipping",
           "freight", "cargo", "bus", "truck", "aviation", "railway",
           "maritime", "fuel", "maintenance", "parts">> >>,
       <<"Security & Safety",
         <<"security", "safety", "guard", "surveillance", "alarm", "protection",
           "fire", "emergency", "rescue", "police", "enforcement", "monitoring",
           "access control", "CCTV", "patrol">> >>,
       <<"Professional Services",
         <<"consulting", "advisory", "legal", "accounting", "audit", "financial",
           "management", "strategy", "planning", "analysis", "research",
           "professional", "expertise", "specialist">> >>,
       <<"Utilities & Energy",
         <<"electricity", "water", "gas", "energy", "power", "utility",
           "renewable", "solar", "wind", "generator", "transmission",
           "distribution", "meter", "infrastructure", "grid">> >>,
       <<"Food & Catering",
         <<"food", "catering", "meal", "kitchen", "restaurant", "nutrition",
           "beverage", "cooking", "dining", "cafeteria", "supply", "grocery">> >>,
       <<"Office Supplies & Equipment",
         <<"office", "furniture", "stationery", "equipment", "supplies", "paper",
           "printing", "copier", "desk", "chair", "filing", "storage">> >>,
       <<"Cleaning & Maintenance",
         <<"cleaning", "maintenance", "janitorial", "housekeeping", "sanitation",
           "waste", "hygiene", "pest control", "landscaping", "gardening">> >>,
       <<"Other", <<>> >> >>

\* INDUSTRY_KEYWORDS of the compact handler
INDUSTRY_KEYWORDS_compact ==
    << <<"Construction & Infrastructure",
         <<"construction", "building", "infrastructure", "road", "civil">> >>,
       <<"Information Technology",
         <<"software", "hardware", "it", "technology", "network", "cyber">> >>,
       <<"Healthcare & Medical",
         <<"medical", "health", "hospital", "pharmaceutical", "clinic">> >>,
       <<"Professional Services",
         <<"consulting", "legal", "accounting", "advisory", "audit">> >>,
       <<"Transportation & Logistics",
         <<"transport", "logistics", "fleet", "vehicle">> >>,
       <<"Security & Safety", <<"security", "safety", "guard", "surveillance">> >>,
       <<"Education & Training",
         <<"education", "school", "university", "training">> >> >>

\* ------------------------------------------------------ the classification
Variants == {"loop", "compact"}

KeysOf(table) == {table[i][1] : i \in DOMAIN table}

\* the value of an own property of the table
ValueOf(table, key) == table[CHOOSE i \in DOMAIN table : table[i][1] = key][2]

\* lower-case names that every object literal inherits from Object.prototype
InheritedKeys == {"constructor", "__proto__"}

\* PROVINCE_MAPPING[key]: own properties first, then the inherited ones, which
\* are objects and not province names; NULL stands for undefined
PropertyOf(table, key) ==
    IF key \in KeysOf(table) THEN ValueOf(table, key)
    ELSE IF key \in InheritedKeys THEN "[object]"
    ELSE NULL

\* for (const [key, province] of Object.entries(table)) if (text.includes(key))
\* return province; NULL when the loop ends
FirstIncluded(table, text) ==
    IF \E i \in DOMAIN table : Includes(text, table[i][1])
    THEN LET first == CHOOSE i \in DOMAIN table :
                         /\ Includes(text, table[i][1])
                         /\ \A j \in 1..(i - 1) : ~Includes(text, table[j][1])
         IN  table[first][2]
    ELSE NULL

\* `${title} ${description || ''}`
TitleAndDescription(release) ==
    release.title \o " " \o OrEmpty(release.description)

\* mapProvince of the loop handler
mapProvince(release) ==
    LET region == trim(toLowerCase(OrEmpty(release.region)))
        locality == trim(toLowerCase(OrEmpty(release.locality)))
        searchText == toLowerCase(TitleAndDescription(release))
    IN  IF Truthy(release.region) /\ PropertyOf(PROVINCE_MAPPING, region) # NULL
        THEN PropertyOf(PROVINCE_MAPPING, region)
        ELSE IF Truthy(release.locality)
                /\ PropertyOf(PROVINCE_MAPPING, locality) # NULL
        THEN PropertyOf(PROVINCE_MAPPING, locality)
        ELSE IF FirstIncluded(PROVINCE_MAPPING, searchText) # NULL
        THEN FirstIncluded(PROVINCE_MAPPING, searchText)
        ELSE "National"

\* mapToProvince of the compact handler
mapToProvince(text) == FirstIncluded(PROVINCE_MAPPING_compact, toLowerCase(text))

\* x || 'National'
OrNational(x) == IF x = NULL THEN "National" ELSE x

\* mapProvince of the compact handler
mapProvince_compact(release) ==
    IF Truthy(release.region) THEN OrNational(mapToProvince(release.region))
    ELSE IF Truthy(release.locality)
    THEN OrNational(mapToProvince(release.locality))
    ELSE OrNational(mapToProvince(TitleAndDescription(release)))

\* keywords.some(k => text.includes(k))
KeywordHit(keywords, text) ==
    \E k \in DOMAIN keywords : Includes(text, keywords[k])

\* the loop over Object.entries(INDUSTRY_KEYWORDS) that skips 'Other' and
\* returns the first industry with a keyword in the text; NULL when it ends
FirstIndustry(text) ==
    LET hit(j) == /\ INDUSTRY_KEYWORDS[j][1] # "Other"
                  /\ KeywordHit(INDUSTRY_KEYWORDS[j][2], text)
    IN  IF \E j \in DOMAIN INDUSTRY_KEYWORDS : hit(j)
        THEN INDUSTRY_KEYWORDS[CHOOSE j \in DOMAIN INDUSTRY_KEYWORDS :
                 hit(j) /\ \A h \in 1..(j - 1) : ~hit(h)][1]
        ELSE NULL

\* categorizeIndustry of the loop handler: the classification description of
\* each item in turn, then title and description
categorizeIndustry(release) ==
    LET items == release.items
        found(i) == /\ Truthy(items[i])
                    /\ FirstIndustry(toLowerCase(items[i])) # NULL
        searchText == toLowerCase(TitleAndDescription(release))
    IN  IF \E i \in DOMAIN items : found(i)
        THEN FirstIndustry(toLowerCase(items[
                 CHOOSE i \in DOMAIN items :
                     found(i) /\ \A h \in 1..(i - 1) : ~found(h)]))
        ELSE IF FirstIndustry(searchText) # NULL THEN FirstIndustry(searchText)
        ELSE "Other"

\* items?.[0]?.classification?.description || ''
FirstClassification(release) ==
    IF Len(release.items) = 0 THEN "" ELSE OrEmpty(release.items[1])

\* `${title} ${description || ''} ${first classification || ''}`.toLowerCase()
IndustryText(release) ==
    toLowerCase(TitleAndDescription(release) \o " "
                \o FirstClassification(release))

\* the first entry of the table with a keyword in the text, 'Other' if none
FirstCategory(table, text) ==
    IF \E j \in DOMAIN table : KeywordHit(table[j][2], text)
    THEN table[CHOOSE j \in DOMAIN table :
             /\ KeywordHit(table[j][2], text)
             /\ \A h \in 1..(j - 1) : ~KeywordHit(table[h][2], text)][1]
    ELSE "Other"

\* categorizeIndustry of the compact handler
categorizeIndustry_compact(release) ==
    FirstCategory(INDUSTRY_KEYWORDS_compact, IndustryText(release))

\* buyer.address.region as the feed sends it (NULL: no buyer or no region)
Regions == {NULL, " Western Cape ", "GAUTENG", "Unknown", "Constructor"}
Localities == {NULL, "Durban", "Midrand"}
Titles == {"Road construction project", "Supply of laptops in Limpopo",
           "Office chairs"}
Descriptions == {NULL, "Security audit of the network"}
\* tender.items: the classification description of each item
ItemLists == {<<>>, <<"Medical equipment">>, <<NULL, "School furniture">>}

OcdsReleases ==
    [region : Regions, locality : Localities, title : Titles,
     description : Descriptions, items : ItemLists]

NoOcdsRelease ==
    [region |-> NULL, locality |-> NULL, title |-> "", description |-> NULL,
     items |-> <<>>]

\* nothing is being classified
ClassIdle ==
    /\ ocdsRelease = NoOcdsRelease
    /\ province = "none"
    /\ provinceBy = "none"
    /\ industry = "none"
    /\ industryBy = "none"

\* ----------------------------------------------------------------- withRetry
\* the largest maxRetries a caller passes
RetryLimit == 3

NoError == [class |-> "none", status |-> 0, message |-> ""]

\* what operation() can reject with; status 0: the ApiError has no status;
\* class "string": a value that is not an Error
Errors ==
    { [class |-> "ValidationError", status |-> 0, message |-> "validation failed"],
      [class |-> "ApiError", status |-> 400, message |-> "Bad request"],
      [class |-> "ApiError", status |-> 404, message |-> "network not found"],
      [class |-> "ApiError", status |-> 500, message |-> "Internal error"],
      [class |-> "ApiError", status |-> 503, message |-> "Service unavailable"],
      [class |-> "ApiError", status |-> 0, message |-> "Unknown API error"],
      [class |-> "TypeError", status |-> 0, message |-> "Failed to fetch"],
      [class |-> "Error", status |-> 0, message |-> "network timeout"],
      [class |-> "Error", status |-> 0, message |-> "boom"],
      [class |-> "string", status |-> 0, message |-> "boom"] }

isNetworkError(error) ==
    \/ error.class = "TypeError" /\ Includes(error.message, "fetch")
    \/ /\ error.class # "string"
       /\ \/ Includes(error.message, "network")
          \/ Includes(error.message, "timeout")
          \/ Includes(error.message, "connection")

\* error instanceof ApiError && error.status && 400 <= error.status < 500
IsClientError(error) ==
    error.class = "ApiError" /\ error.status >= 400 /\ error.status < 500

\* error instanceof ApiError && error.status && error.status >= 500
IsServerError(error) == error.class = "ApiError" /\ error.status >= 500

\* mutant: the last error is thrown as it is
FailedAfter_unwrapped(retries, lastError) == lastError

\* new NetworkError(`Operation failed after ${maxRetries + 1} attempts: ...`)
FailedAfter(retries, lastError) ==
    [class |-> "NetworkError", status |-> 0,
     message |-> "Operation failed after " \o ToString(retries + 1)
                 \o " attempts: " \o lastError.message]

\* no withRetry call is in progress
RetryIdle ==
    /\ maxRetries = 0
    /\ attempt = 0
    /\ retryPc = "idle"
    /\ invoked = 0
    /\ caught = NoError
    /\ thrown = NoError

\* ------------------------------------------------------- the debounce hooks
\* timeoutRef.current === null, or a timeout that was cleared or has run
NoTimer == [due |-> -1, args |-> "", call |-> 0]

\* what the debounced function is called with
Arguments == {"first", "second"}

\* what the user types into the search box
Terms == {"", "road", "rail"}

\* filters of the search hook: search and province (NULL: key not present)
NoFilters == [search |-> NULL, province |-> NULL]

\* initialFilters of useDebouncedSearch
InitialFilters == {NoFilters, [search |-> "road", province |-> "gauteng"]}

\* a key that an argument of updateFilters does not name
Absent == "absent"

\* arguments of updateFilters
NewFilters ==
    [search : {Absent, "rail"}, province : {Absent, "", "limpopo"}]
        \ {[search |-> Absent, province |-> Absent]}

\* debouncedSearchTerm || undefined
OrUndefined(x) == IF x \in {"", NULL} THEN NULL ELSE x

\* { ...prevFilters, ...newFilters } without undefined, '' and null values
MergeFilters(prevFilters, newFilters) ==
    [key \in {"search", "province"} |->
        OrUndefined(IF newFilters[key] = Absent THEN prevFilters[key]
                    ELSE newFilters[key])]

\* no hook is in use
HookIdle ==
    /\ time = 0
    /\ mounted = FALSE
    /\ timeoutRef = NoTimer
    /\ calls = <<>>
    /\ fired = <<>>
    /\ searchTerm = ""
    /\ debouncedSearchTerm = ""
    /\ filters = NoFilters
    /\ debounceTimeoutRef = NoTimer
    /\ termSince = 0

\* ----------------------------------------------------------------- useUrlSync
\* the default page size
DefaultPageSize == 12

\* the parameters updateUrl knows, and one it does not
UrlParams == {"page", "pageSize", "search", "province", "industry"}
UrlKeys == UrlParams \cup {"sort"}

\* UrlSyncOptions: named holds the keys that are not undefined
UrlOptions ==
    { o \in [named : SUBSET UrlParams, page : {1, 3},
             pageSize : {DefaultPageSize, 24}, search : {" ", " road "},
             province : {"all", "gauteng"}, industry : {"", "it"}] :
        /\ "page" \notin o.named => o.page = 1
        /\ "pageSize" \notin o.named => o.pageSize = DefaultPageSize
        /\ "search" \notin o.named => o.search = " "
        /\ "province" \notin o.named => o.province = "all"
        /\ "industry" \notin o.named => o.industry = "" }

NoOptions ==
    [named |-> {}, page |-> 1, pageSize |-> DefaultPageSize, search |-> " ",
     province |-> "all", industry |-> ""]

\* no parameter in the URL
NoParams == [key \in UrlKeys |-> NULL]

\* URLs the page is opened with
StartParams ==
    { NoParams,
      [NoParams EXCEPT !["page"] = "3", !["pageSize"] = "24",
                       !["search"] = "construction", !["sort"] = "asc"] }

\* mutant: the new URL holds the named parameters only
UpdatedParams_namedOnly(params, options) ==
    [key \in UrlKeys |->
        IF key \notin options.named THEN NULL
        ELSE IF key = "page"
        THEN IF options.page > 1 THEN ToString(options.page) ELSE NULL
        ELSE IF key = "pageSize"
        THEN IF options.pageSize # DefaultPageSize
             THEN ToString(options.pageSize) ELSE NULL
        ELSE IF key = "search"
        THEN IF trim(options.search) # "" THEN trim(options.search) ELSE NULL
        ELSE IF Truthy(options[key]) /\ options[key] # "all"
             THEN options[key] ELSE NULL]

\* updateUrl: params.set / params.delete for each option that is not undefined
UpdatedParams(params, options) ==
    [key \in UrlKeys |->
        IF key \notin options.named THEN params[key]
        ELSE IF key = "page"
        THEN IF options.page > 1 THEN ToString(options.page) ELSE NULL
        ELSE IF key = "pageSize"
        THEN IF options.pageSize # DefaultPageSize
             THEN ToString(options.pageSize) ELSE NULL
        ELSE IF key = "search"
        THEN IF trim(options.search) # "" THEN trim(options.search) ELSE NULL
        ELSE IF Truthy(options[key]) /\ options[key] # "all"
             THEN options[key] ELSE NULL]

\* no page uses the hook
UrlIdle ==
    /\ searchParams = NoParams
    /\ urlSync = "none"
    /\ pushed = FALSE
    /\ urlCalls = 0
    /\ lastOptions = NoOptions
    /\ prevParams = NoParams

\* ---------------------------------------------------------- the listing page
\* the result of parseInt: NaN, or an integer
NaN == [nan |-> TRUE, value |-> 0]

Digits == "0123456789"

IsDigit(c) == \E i \in 1..Len(Digits) : CharAt(Digits, i) = c

DigitValue(c) == (CHOOSE i \in 1..Len(Digits) : CharAt(Digits, i) = c) - 1

\* the value of the longest prefix of digits, after the digits read so far
RECURSIVE DigitsValue(_, _)
DigitsValue(str, acc) ==
    IF Len(str) = 0 \/ ~IsDigit(CharAt(str, 1)) THEN acc
    ELSE DigitsValue(SubSeq(str, 2, Len(str)), acc * 10 + DigitValue(CharAt(str, 1)))

RECURSIVE trimStart(_)
trimStart(str) ==
    IF Len(str) > 0 /\ CharAt(str, 1) = " " THEN trimStart(SubSeq(str, 2, Len(str)))
    ELSE str

\* parseInt(str, 10): leading blanks, an optional sign, then the digits up to
\* the first other character; NaN when there is no digit
parseInt(str) ==
    LET s == trimStart(str)
        signed == Len(s) > 0 /\ CharAt(s, 1) \in {"-", "+"}
        body == IF signed THEN SubSeq(s, 2, Len(s)) ELSE s
    IN  IF Len(body) = 0 \/ ~IsDigit(CharAt(body, 1)) THEN NaN
        ELSE [nan |-> FALSE,
              value |-> IF signed /\ CharAt(s, 1) = "-" THEN 0 - DigitsValue(body, 0)
                        ELSE DigitsValue(body, 0)]

\* the page sizes the second hook accepts
PageSizes == {12, 24, 48}

\* searchParams.get(key) || fallback
GetOr(params, key, fallback) ==
    IF Truthy(params[key]) THEN params[key] ELSE fallback

\* getUrlParams of the two hooks
getUrlParams(params, hook) ==
    LET page == parseInt(GetOr(params, "page", "1"))
        size == parseInt(GetOr(params, "pageSize", "12"))
    IN  [page |-> IF hook = "guarded"
                  THEN IF page.nan THEN 1 ELSE page.value
                  ELSE IF page.nan \/ page.value < 1 THEN 1 ELSE page.value,
         pageSize |-> IF hook = "guarded"
                      THEN IF size.nan THEN DefaultPageSize ELSE size.value
                      ELSE IF size.nan \/ size.value \notin PageSizes
                           THEN DefaultPageSize ELSE size.value,
         search |-> GetOr(params, "search", ""),
         province |-> GetOr(params, "province", ""),
         industry |-> GetOr(params, "industry", "")]

\* query strings the listing page is opened with
ListingUrls ==
    { [NoParams EXCEPT !["page"] = page, !["pageSize"] = size, !["search"] = search] :
        page \in {NULL, "1", "3", "0", "-2", "2nd", "abc"},
        size \in {NULL, "24", "13", " 48"},
        search \in {NULL, "road"} }

\* an UrlSyncOptions with the given keys
Options(named, page, size, search, provinceOption, industryOption) ==
    [named |-> named, page |-> page, pageSize |-> size, search |-> search,
     province |-> provinceOption, industry |-> industryOption]

\* what the filter panel hands to handleFilterChange
PanelFilters == [search : {Absent}, province : {Absent, "limpopo"}, industry : {Absent, "it"}]

\* newFilters.province || ''
OrBlank(x) == IF x \in {Absent, NULL, ""} THEN "" ELSE x

\* pages and page sizes of the pagination controls
PageButtons == {1, 2, 3}
PageSizeOptions == {12, 24}

\* no listing page is open
ListingIdle ==
    /\ currentPage = 1
    /\ pageSize = DefaultPageSize
    /\ handled = "none"

\* ------------------------------------------------------------ get-tenders
\* a number of a JSON body, in halves (3 halves: 1.5), or undefined
Undefined == [defined |-> FALSE, halves |-> 0]

Number(n) == [defined |-> TRUE, halves |-> 2 * n]

\* a number that is not an integer: n + 0.5
AndAHalf(n) == [defined |-> TRUE, halves |-> 2 * n + 1]

\* Number.isInteger
NumberIsInteger(n) == n.halves % 2 = 0

\* the value of an integer number
IntegerValue(n) == n.halves \div 2

\* Validation constants
TENDER_STATUSES == <<"open", "closed", "cancelled", "awarded">>
SORT_FIELDS == <<"date_published", "date_closing", "value_amount", "title">>
SORT_ORDERS == <<"asc", "desc">>
PAGE_SIZES == <<12, 24, 48>>

\* Array.prototype.includes
ArrayIncludes(array, x) == \E i \in DOMAIN array : array[i] = x

\* the search term may have 500 characters
SearchLimit == 500

\* a string field of the body that is there and not empty
Given(x) == x \notin {Absent, ""}

\* dateString.match(/^\d{4}-\d{2}-\d{2}$/) !== null
IsDateForm(dateString) ==
    /\ Len(dateString) = 10
    /\ \A i \in {1, 2, 3, 4, 6, 7, 9, 10} : IsDigit(CharAt(dateString, i))
    /\ CharAt(dateString, 5) = "-"
    /\ CharAt(dateString, 8) = "-"

MonthOf(dateString) == DigitsValue(SubSeq(dateString, 6, 7), 0)
DayOf(dateString) == DigitsValue(SubSeq(dateString, 9, 10), 0)

\* isValidDate: the string has the form and new Date(dateString) is a date
isValidDate(dateString) ==
    /\ IsDateForm(dateString)
    /\ MonthOf(dateString) \in 1..12
    /\ DayOf(dateString) \in 1..31

\* new Date(dateString), as a number that orders the days
DayNumber(dateString) ==
    DigitsValue(SubSeq(dateString, 1, 4), 0) * 10000
        + MonthOf(dateString) * 100 + DayOf(dateString)

\* the error codes validateGetTendersRequest collects for a condition
ErrorIf(condition, code) == IF condition THEN <<code>> ELSE <<>>

\* mutant: page_size is not validated
validateGetTendersRequest_anyPageSize(request) ==
    ErrorIf(Given(request.search) /\ Len(request.search) > SearchLimit, "SEARCH_TOO_LONG")
    \o ErrorIf(Given(request.province) /\ Len(trim(request.province)) = 0, "PROVINCE_EMPTY")
    \o ErrorIf(Given(request.industry) /\ Len(trim(request.industry)) = 0, "INDUSTRY_EMPTY")
    \o ErrorIf(Given(request.status) /\ ~ArrayIncludes(TENDER_STATUSES, request.status),
               "INVALID_STATUS")
    \o ErrorIf(Given(request.date_from) /\ ~isValidDate(request.date_from),
               "INVALID_DATE_FROM")
    \o ErrorIf(Given(request.date_to) /\ ~isValidDate(request.date_to), "INVALID_DATE_TO")
    \o ErrorIf(/\ Given(request.date_from) /\ Given(request.date_to)
               /\ isValidDate(request.date_from) /\ isValidDate(request.date_to)
               /\ DayNumber(request.date_from) > DayNumber(request.date_to),
               "INVALID_DATE_RANGE")
    \o ErrorIf(request.min_value.defined /\ request.min_value.halves < 0,
               "INVALID_MIN_VALUE")
    \o ErrorIf(request.max_value.defined /\ request.max_value.halves < 0,
               "INVALID_MAX_VALUE")
    \o ErrorIf(/\ request.min_value.defined /\ request.max_value.defined
               /\ request.min_value.halves > request.max_value.halves,
               "INVALID_VALUE_RANGE")
    \o ErrorIf(request.page.defined
                   /\ (~NumberIsInteger(request.page) \/ request.page.halves < 2),
               "INVALID_PAGE")
    \o ErrorIf(Given(request.sort_by) /\ ~ArrayIncludes(SORT_FIELDS, request.sort_by),
               "INVALID_SORT_FIELD")
    \o ErrorIf(Given(request.sort_order) /\ ~ArrayIncludes(SORT_ORDERS, request.sort_order),
               "INVALID_SORT_ORDER")

\* validateGetTendersRequest: the errors, in the order they are pushed
validateGetTendersRequest(request) ==
    ErrorIf(Given(request.search) /\ Len(request.search) > SearchLimit, "SEARCH_TOO_LONG")
    \o ErrorIf(Given(request.province) /\ Len(trim(request.province)) = 0, "PROVINCE_EMPTY")
    \o ErrorIf(Given(request.industry) /\ Len(trim(request.industry)) = 0, "INDUSTRY_EMPTY")
    \o ErrorIf(Given(request.status) /\ ~ArrayIncludes(TENDER_STATUSES, request.status),
               "INVALID_STATUS")
    \o ErrorIf(Given(request.date_from) /\ ~isValidDate(request.date_from),
               "INVALID_DATE_FROM")
    \o ErrorIf(Given(request.date_to) /\ ~isValidDate(request.date_to), "INVALID_DATE_TO")
    \o ErrorIf(/\ Given(request.date_from) /\ Given(request.date_to)
               /\ isValidDate(request.date_from) /\ isValidDate(request.date_to)
               /\ DayNumber(request.date_from) > DayNumber(request.date_to),
               "INVALID_DATE_RANGE")
    \o ErrorIf(request.min_value.defined /\ request.min_value.halves < 0,
               "INVALID_MIN_VALUE")
    \o ErrorIf(request.max_value.defined /\ request.max_value.halves < 0,
               "INVALID_MAX_VALUE")
    \o ErrorIf(/\ request.min_value.defined /\ request.max_value.defined
               /\ request.min_value.halves > request.max_value.halves,
               "INVALID_VALUE_RANGE")
    \o ErrorIf(request.page.defined
                   /\ (~NumberIsInteger(request.page) \/ request.page.halves < 2),
               "INVALID_PAGE")
    \o ErrorIf(request.page_size.defined
                   /\ ~(/\ NumberIsInteger(request.page_size)
                        /\ ArrayIncludes(PAGE_SIZES, IntegerValue(request.page_size))),
               "INVALID_PAGE_SIZE")
    \o ErrorIf(Given(request.sort_by) /\ ~ArrayIncludes(SORT_FIELDS, request.sort_by),
               "INVALID_SORT_FIELD")
    \o ErrorIf(Given(request.sort_order) /\ ~ArrayIncludes(SORT_ORDERS, request.sort_order),
               "INVALID_SORT_ORDER")

\* x || fallback, for a string field
StringOr(x, fallback) == IF Given(x) THEN x ELSE fallback

\* requestBody.page || 1, for a validated number
NumberOr(n, fallback) ==
    IF n.defined /\ n.halves # 0 THEN IntegerValue(n) ELSE fallback

\* filters.min_value || null
ValueOrNull(n) == IF n.defined /\ n.halves # 0 THEN n ELSE Undefined

\* the arguments of rpc('search_tenders')
SearchArguments(request) ==
    [search_query |-> StringOr(request.search, NULL),
     filter_province |-> StringOr(request.province, NULL),
     filter_industry |-> StringOr(request.industry, NULL),
     filter_status |-> StringOr(request.status, "open"),
     date_from |-> StringOr(request.date_from, NULL),
     date_to |-> StringOr(request.date_to, NULL),
     min_value |-> ValueOrNull(request.min_value),
     max_value |-> ValueOrNull(request.max_value),
     sort_by |-> StringOr(request.sort_by, "date_published"),
     sort_order |-> StringOr(request.sort_order, "desc"),
     page_offset |-> (NumberOr(request.page, 1) - 1)
                         * NumberOr(request.page_size, DefaultPageSize),
     page_limit |-> NumberOr(request.page_size, DefaultPageSize)]

\* search_tenders: the rows the WHERE conditions keep.  The full-text match
\* of a one-word query is the word occurring in the title.
MatchingTenders(rows, arguments) ==
    { t \in rows :
        /\ t.status = arguments.filter_status
        /\ arguments.filter_province \notin {NULL, "all"}
              => t.province = arguments.filter_province
        /\ arguments.filter_industry \notin {NULL, "all"}
              => t.industry = arguments.filter_industry
        /\ arguments.search_query \notin {NULL, ""}
              => /\ Len(arguments.search_query) <= Len(t.title)
                 /\ Includes(toLowerCase(t.title), toLowerCase(arguments.search_query))
        /\ arguments.date_from # NULL
              => t.date_published >= DayNumber(arguments.date_from)
        /\ arguments.date_to # NULL
              => t.date_published <= DayNumber(arguments.date_to)
        /\ arguments.min_value.defined
              => 2 * t.value_amount >= arguments.min_value.halves
        /\ arguments.max_value.defined
              => 2 * t.value_amount <= arguments.max_value.halves }

\* search_tenders: the number of rows LIMIT / OFFSET leave of the matching
\* ones, and the total_count column every row carries
search_tenders(rows, arguments) ==
    LET total_records == Cardinality(MatchingTenders(rows, arguments))
        left == total_records - arguments.page_offset
    IN  [rows |-> IF left <= 0 THEN 0 ELSE Min(left, arguments.page_limit),
         total_count |-> total_records]

NoResults == [rows |-> 0, total_count |-> 0]

\* Math.ceil(totalCount / pageSize)
CeilDiv(a, b) == (a + b - 1) \div b

NoPagination ==
    [current_page |-> 0, total_pages |-> 0, page_size |-> 0, total_count |-> 0,
     has_next |-> FALSE, has_previous |-> FALSE]

\* the pagination block of the response
Pagination(request, found) ==
    LET page == NumberOr(request.page, 1)
        size == NumberOr(request.page_size, DefaultPageSize)
        totalCount == IF found.rows > 0 THEN found.total_count ELSE 0
        totalPages == CeilDiv(totalCount, size)
    IN  [current_page |-> page, total_pages |-> totalPages, page_size |-> size,
         total_count |-> totalCount, has_next |-> page < totalPages,
         has_previous |-> page > 1]

NoGetResponse == [status |-> 0, code |-> "none", details |-> <<>>, rows |-> 0,
                  pagination |-> NoPagination]

\* the tenders of the table
CatalogTender(i) ==
    [id |-> i,
     status |-> IF i <= 25 THEN "open" ELSE "closed",
     province |-> IF i % 2 = 1 THEN "gauteng" ELSE "limpopo",
     industry |-> IF i % 5 = 0 THEN "it" ELSE "construction",
     title |-> IF i % 3 = 0 THEN "Road works" ELSE "Network hardware",
     value_amount |-> i * 100,
     date_published |-> 20240100 + i]

CatalogSizes == {0, 12, 30}

\* a search term of 500 characters
TenChars == "aaaaaaaaaa"
HundredChars ==
    TenChars \o TenChars \o TenChars \o TenChars \o TenChars
        \o TenChars \o TenChars \o TenChars \o TenChars \o TenChars
LongestTerm ==
    HundredChars \o HundredChars \o HundredChars \o HundredChars \o HundredChars

\* a request without any field
EmptyRequest ==
    [search |-> Absent, province |-> Absent, industry |-> Absent, status |-> Absent,
     date_from |-> Absent, date_to |-> Absent, min_value |-> Undefined,
     max_value |-> Undefined, page |-> Undefined, page_size |-> Undefined,
     sort_by |-> Absent, sort_order |-> Absent]

\* the values a field of the body takes
FieldValues ==
    [search |-> {"road", LongestTerm, LongestTerm \o "a"},
     province |-> {"gauteng", "all", " "},
     industry |-> {"it", " "},
     status |-> {"", "open", "closed", "archived"},
     date_from |-> {"", "2024-01-10", "2024-01-20", "10/01/2024"},
     date_to |-> {"2024-01-15", "2024-13-01", "tomorrow"},
     min_value |-> {Number(0), Number(1000), Number(-1)},
     max_value |-> {Number(0), Number(500), AndAHalf(-1)},
     page |-> {Number(1), Number(2), Number(3), Number(4), Number(0), AndAHalf(1),
               Number(-1)},
     page_size |-> {Number(12), Number(24), Number(48), Number(13), AndAHalf(12),
                    Number(0)},
     sort_by |-> {"", "title", "id"},
     sort_order |-> {"", "asc", "up"}]

\* bodies with up to two fields, and every page of every page size
Requests ==
    { [[EmptyRequest EXCEPT ![first] = v] EXCEPT ![second] = w] :
        <<first, v, second, w>> \in
            UNION { {f} \X FieldValues[f] \X {g} \X FieldValues[g] :
                    <<f, g>> \in (DOMAIN FieldValues) \X (DOMAIN FieldValues) } }
    \cup
    { [EmptyRequest EXCEPT ![f] = v] : <<f, v>> \in
            UNION { {f} \X FieldValues[f] : f \in DOMAIN FieldValues } }
    \cup {EmptyRequest}

\* no request is being served
GetIdle ==
    /\ catalog = {}
    /\ requestBody = EmptyRequest
    /\ getPc = "off"
    /\ searchResults = NoResults
    /\ rpcCalls = <<>>
    /\ getResponse = NoGetResponse

\* ------------------------------------------------------- the closing date
\* 30 * 24 * 60 * 60 * 1000 ms, in instants of one day
ThirtyDays == 30

\* date_closing of transformRelease, the same expression in both handlers:
\* tenderPeriod.endDate || new Date(Date.now() + 30 days); instant is what
\* Date.now() reads
closingDate(release, instant) ==
    IF release.endDate # NoDate THEN release.endDate ELSE instant + ThirtyDays

\* no release is being normalized
ClosingIdle ==
    /\ releaseDate = NoDate
    /\ date_closing = NoDate
    /\ prevClosing = NoDate

ExtIdle == ListingIdle /\ GetIdle /\ ClosingIdle

\* ------------------------------------------------------------ the handlers
\* mutant: the whole error list goes into the response
ErrorSample_unbounded(errs) == errs

\* errors.slice(0, 10)
ErrorSample(errs) == SubSeq(errs, 1, Min(ErrorSampleLimit, Len(errs)))

ErrorResponse ==
    [status |-> 500, success |-> FALSE, code |-> "SYNC_ERROR",
     processed_count |-> 0, error_count |-> 0, total_fetched |-> 0, errors |-> <<>>]

NoResponse ==
    [status |-> 0, success |-> FALSE, code |-> "",
     processed_count |-> 0, error_count |-> 0, total_fetched |-> 0, errors |-> <<>>]

SummaryResponse(processed, failed, total, errs) ==
    [status |-> 200, success |-> TRUE, code |-> "",
     processed_count |-> processed, error_count |-> failed,
     total_fetched |-> total, errors |-> ErrorSample(errs)]

NoData == [ocid |-> NoOcid, title |-> NULL, description |-> NULL, documents |-> <<>>]
NoCall ==
    [run |-> 0, variant |-> "", data |-> NoData, existed |-> FALSE, hadDocs |-> FALSE,
     stepFailed |-> FALSE, raised |-> FALSE, docsBefore |-> EmptyBag,
     docsAfter |-> EmptyBag, overlapped |-> FALSE]

Count(res, what) == Cardinality({i \in DOMAIN res : res[i] = what})

\* index of the first release of the page whose transformation throws, or 0
FirstThrowing(page) ==
    IF \E i \in DOMAIN page : TransformThrows(page[i])
    THEN CHOOSE i \in DOMAIN page :
            /\ TransformThrows(page[i])
            /\ \A j \in 1..(i - 1) : ~TransformThrows(page[j])
    ELSE 0

InitWith(pages, slots, requests) ==
    /\ tenders = {}
    /\ tender_documents = EmptyBag
    /\ nextId = 1
    /\ now = 0
    /\ feed = pages
    /\ active = slots
    /\ syncsLeft = requests
    /\ pc = [r \in Runs |-> "idle"]
    /\ variant = [r \in Runs |-> "loop"]
    /\ releases = [r \in Runs |-> <<>>]
    /\ idx = [r \in Runs |-> 1]
    /\ results = [r \in Runs |-> <<>>]
    /\ processedCount = [r \in Runs |-> 0]
    /\ errorCount = [r \in Runs |-> 0]
    /\ errors = [r \in Runs |-> <<>>]
    /\ tenderData = [r \in Runs |-> NoData]
    /\ tenderId = [r \in Runs |-> 0]
    /\ response = [r \in Runs |-> NoResponse]
    /\ fetchResult = [r \in Runs |-> "none"]
    /\ lastWrite = [o \in Ocids |-> NoData]
    /\ lastWriteAt = [o \in Ocids |-> 0]
    /\ call = [r \in Runs |-> NoCall]
    /\ lastCall = NoCall
    /\ prevCall = NoCall

\* empty store; both handler slots serve requests, the feed serves short pages
Init == InitWith(ShortPages, Runs, MaxSyncs) /\ StatusIdle /\ ClassIdle /\ RetryIdle /\ HookIdle
    /\ UrlIdle /\ ExtIdle

\* a request arrives: locals of the handler are fresh
Fresh(r, v) ==
    /\ variant' = [variant EXCEPT ![r] = v]
    /\ idx' = [idx EXCEPT ![r] = 1]
    /\ processedCount' = [processedCount EXCEPT ![r] = 0]
    /\ errorCount' = [errorCount EXCEPT ![r] = 0]
    /\ errors' = [errors EXCEPT ![r] = <<>>]
    /\ tenderData' = [tenderData EXCEPT ![r] = NoData]
    /\ tenderId' = [tenderId EXCEPT ![r] = 0]
    /\ call' = [call EXCEPT ![r] = NoCall]
    /\ syncsLeft' = syncsLeft - 1

Fail500(r, fetched) ==
    /\ pc' = [pc EXCEPT ![r] = "done"]
    /\ response' = [response EXCEPT ![r] = ErrorResponse]
    /\ fetchResult' = [fetchResult EXCEPT ![r] = fetched]

\* loop variant, up to the end of fetchReleases: req.json() failures are
\* swallowed, a failed fetch is rethrown into the outer catch
StartLoop(r) ==
    /\ r \in active /\ pc[r] \in {"idle", "done"} /\ syncsLeft > 0
    /\ UNCHANGED pureVars
    /\ Fresh(r, "loop")
    /\ \/ /\ Fail500(r, "failed")
          /\ releases' = [releases EXCEPT ![r] = <<>>]
          /\ results' = [results EXCEPT ![r] = <<>>]
       \/ \E page \in feed :
          /\ releases' = [releases EXCEPT ![r] = page]
          /\ results' = [results EXCEPT ![r] = [i \in DOMAIN page |-> "pending"]]
          /\ pc' = [pc EXCEPT ![r] = "loop"]
          /\ response' = [response EXCEPT ![r] = NoResponse]
          /\ fetchResult' = [fetchResult EXCEPT ![r] = "ok"]
    /\ UNCHANGED <<dbVars, cfgVars, lastWrite, lastWriteAt, lastCall, prevCall>>

\* settled variant, up to the end of releases.map(...): an unparsable body
\* and a failed fetch reach the outer catch, and so does a transformRelease
\* that throws inside the map callback; the calls begun before it stay in flight
StartSettled(r) ==
    /\ r \in active /\ pc[r] \in {"idle", "done"} /\ syncsLeft > 0
    /\ UNCHANGED pureVars
    /\ Fresh(r, "settled")
    /\ \/ /\ Fail500(r, "none")
          /\ releases' = [releases EXCEPT ![r] = <<>>]
          /\ results' = [results EXCEPT ![r] = <<>>]
       \/ /\ Fail500(r, "failed")
          /\ releases' = [releases EXCEPT ![r] = <<>>]
          /\ results' = [results EXCEPT ![r] = <<>>]
       \/ \E page \in feed :
          /\ releases' = [releases EXCEPT ![r] = page]
          /\ IF FirstThrowing(page) = 0
             THEN /\ results' = [results EXCEPT ![r] = [i \in DOMAIN page |-> "pending"]]
                  /\ pc' = [pc EXCEPT ![r] = "settling"]
                  /\ response' = [response EXCEPT ![r] = NoResponse]
                  /\ fetchResult' = [fetchResult EXCEPT ![r] = "ok"]
             ELSE /\ results' = [results EXCEPT ![r] =
                        [i \in DOMAIN page |->
                            IF i < FirstThrowing(page) THEN "pending" ELSE "unstarted"]]
                  /\ Fail500(r, "ok")
    /\ UNCHANGED <<dbVars, cfgVars, lastWrite, lastWriteAt, lastCall, prevCall>>

\* catch block of the loop: count, record the message with the ocid, go on
Catch(r, msg) ==
    /\ errorCount' = [errorCount EXCEPT ![r] = @ + 1]
    /\ errors' = [errors EXCEPT ![r] =
            Append(@, [ocid |-> releases[r][idx[r]].ocid, msg |-> msg])]
    /\ results' = [results EXCEPT ![r][idx[r]] = "rejected"]
    /\ idx' = [idx EXCEPT ![r] = @ + 1]
    /\ UNCHANGED processedCount

\* another invocation of the handler is inside upsertTender for the same ocid
InFlightElsewhere(r) ==
    \E o \in Runs \ {r} :
        /\ call[o].run = o
        /\ call[o].data.ocid = call[r].data.ocid

\* upsertTender returned: processedCount++ and the next iteration
Returned(r, docsNow, failedNow) ==
    /\ processedCount' = [processedCount EXCEPT ![r] = @ + 1]
    /\ results' = [results EXCEPT ![r][idx[r]] = "fulfilled"]
    /\ idx' = [idx EXCEPT ![r] = @ + 1]
    /\ pc' = [pc EXCEPT ![r] = "loop"]
    /\ lastCall' = [call[r] EXCEPT !.stepFailed = @ \/ failedNow,
                                   !.docsAfter = DocsOf(docsNow, tenderId[r]),
                                   !.overlapped = InFlightElsewhere(r)]
    /\ prevCall' = lastCall
    /\ call' = [call EXCEPT ![r] = NoCall]

\* loop body up to the answer of the tender upsert: transformRelease, then
\* .from('tenders').upsert(tender, {onConflict: 'ocid'}).select('id').single()
ProcessRelease(r) ==
    /\ pc[r] = "loop" /\ idx[r] <= Len(releases[r])
    /\ UNCHANGED pureVars
    /\ LET release == releases[r][idx[r]]
           data == transformRelease(release)
       IN IF TransformThrows(release)
          THEN /\ Catch(r, "TypeError")
               /\ UNCHANGED <<dbVars, pc, tenderData, tenderId, histVars>>
          ELSE \E backendOk \in BOOLEAN :
               IF ~backendOk \/ ViolatesNotNull(data)
               THEN /\ Catch(r, "tenderError")
                    /\ lastCall' = [NoCall EXCEPT !.run = r, !.variant = "loop",
                                        !.data = data, !.stepFailed = TRUE, !.raised = TRUE]
                    /\ prevCall' = lastCall
                    /\ UNCHANGED <<dbVars, pc, tenderData, tenderId, lastWrite, lastWriteAt, call>>
               ELSE /\ tenders' = upsert_tender(tenders, data, nextId, now + 1)
                    /\ nextId' = IF HasRow(data.ocid) THEN nextId ELSE nextId + 1
                    /\ tenderId' = [tenderId EXCEPT ![r] = ReturnedId(tenders', data.ocid)]
                    /\ tenderData' = [tenderData EXCEPT ![r] = data]
                    /\ pc' = [pc EXCEPT ![r] = "delete"]
                    /\ now' = now + 1
                    /\ lastWrite' = [lastWrite EXCEPT ![data.ocid] = data]
                    /\ lastWriteAt' = [lastWriteAt EXCEPT ![data.ocid] = now + 1]
                    /\ call' = [call EXCEPT ![r] =
                          [NoCall EXCEPT !.run = r, !.variant = "loop", !.data = data,
                              !.existed = HasRow(data.ocid),
                              !.hadDocs = HasRow(data.ocid) /\
                                  DocsOf(tender_documents, ReturnedId(tenders', data.ocid))
                                      # EmptyBag,
                              !.docsBefore =
                                  DocsOf(tender_documents, ReturnedId(tenders', data.ocid))]]
                    /\ UNCHANGED <<tender_documents, idx, results, processedCount,
                                   errorCount, errors, lastCall, prevCall>>
    /\ UNCHANGED <<cfgVars, syncsLeft, variant, releases, response, fetchResult>>

\* delete of the tender's documents: a deleteError is logged and ignored
DeleteDocuments(r) ==
    /\ pc[r] = "delete"
    /\ UNCHANGED pureVars
    /\ \E backendOk \in BOOLEAN :
       LET docsNow == IF backendOk
                      THEN DeleteDocumentRows(tender_documents, tenderId[r])
                      ELSE tender_documents
       IN /\ tender_documents' = docsNow
          /\ IF Len(tenderData[r].documents) > 0
             THEN /\ pc' = [pc EXCEPT ![r] = "insert"]
                  /\ call' = [call EXCEPT ![r].stepFailed = @ \/ ~backendOk]
                  /\ UNCHANGED <<idx, results, processedCount, lastCall, prevCall>>
             ELSE Returned(r, docsNow, ~backendOk)
    /\ UNCHANGED <<tenders, nextId, now, cfgVars, syncsLeft, variant, releases, errorCount,
                   errors, tenderData, tenderId, response, fetchResult, lastWrite,
                   lastWriteAt>>

\* insert of the new documents: a documentsError is logged and ignored
InsertDocuments(r) ==
    /\ pc[r] = "insert"
    /\ UNCHANGED pureVars
    /\ \E backendOk \in BOOLEAN :
       LET docsNow == IF backendOk
                      THEN InsertDocumentRows(tender_documents, tenderId[r],
                                              tenderData[r].documents)
                      ELSE tender_documents
       IN /\ tender_documents' = docsNow
          /\ Returned(r, docsNow, ~backendOk)
    /\ UNCHANGED <<tenders, nextId, now, cfgVars, syncsLeft, variant, releases, errorCount,
                   errors, tenderData, tenderId, response, fetchResult, lastWrite,
                   lastWriteAt>>

\* after the loop: the 200 response with the summary
ReportLoop(r) ==
    /\ pc[r] = "loop" /\ idx[r] > Len(releases[r])
    /\ UNCHANGED pureVars
    /\ response' = [response EXCEPT ![r] =
            SummaryResponse(processedCount[r], errorCount[r], Len(releases[r]), errors[r])]
    /\ pc' = [pc EXCEPT ![r] = "done"]
    /\ UNCHANGED <<dbVars, cfgVars, syncsLeft, variant, releases, idx, results,
                   processedCount, errorCount, errors, tenderData, tenderId,
                   fetchResult, histVars>>

\* settled variant: one call of upsertTender, supabase.rpc('upsert_tender', ...),
\* answered: the stored procedure writes the tender row and no document
RpcUpsert(r, i) ==
    /\ variant[r] = "settled" /\ pc[r] \in {"settling", "done"}
    /\ i \in DOMAIN results[r] /\ results[r][i] = "pending"
    /\ UNCHANGED pureVars
    /\ LET data == transformRelease(releases[r][i])
       IN \E backendOk \in BOOLEAN :
          IF ~backendOk \/ ViolatesNotNull(data)
          THEN /\ results' = [results EXCEPT ![r][i] = "rejected"]
               /\ lastCall' = [NoCall EXCEPT !.run = r, !.variant = "settled",
                                   !.data = data, !.stepFailed = TRUE, !.raised = TRUE]
               /\ UNCHANGED <<dbVars, lastWrite, lastWriteAt>>
          ELSE /\ tenders' = upsert_tender(tenders, data, nextId, now + 1)
               /\ nextId' = IF HasRow(data.ocid) THEN nextId ELSE nextId + 1
               /\ results' = [results EXCEPT ![r][i] = "fulfilled"]
               /\ now' = now + 1
                    /\ lastWrite' = [lastWrite EXCEPT ![data.ocid] = data]
                    /\ lastWriteAt' = [lastWriteAt EXCEPT ![data.ocid] = now + 1]
               /\ lastCall' = [NoCall EXCEPT !.run = r, !.variant = "settled",
                     !.data = data, !.existed = HasRow(data.ocid),
                     !.hadDocs = HasRow(data.ocid) /\
                         DocsOf(tender_documents, ReturnedId(tenders', data.ocid)) # EmptyBag,
                     !.docsBefore = DocsOf(tender_documents, ReturnedId(tenders', data.ocid)),
                     !.docsAfter = DocsOf(tender_documents, ReturnedId(tenders', data.ocid))]
               /\ UNCHANGED tender_documents
    /\ prevCall' = lastCall
    /\ UNCHANGED <<cfgVars, syncsLeft, pc, variant, releases, idx, processedCount,
                   errorCount, errors, tenderData, tenderId, response, fetchResult, call>>

\* the messages of the rejected results, in page order: r.reason?.message
RejectedMessages(res) ==
    LET F[n \in 0..Len(res)] ==
          IF n = 0 THEN <<>>
          ELSE IF res[n] = "rejected"
               THEN Append(F[n - 1], [ocid |-> NoOcid, msg |-> "rpcError"])
               ELSE F[n - 1]
    IN F[Len(res)]

\* Promise.allSettled resolved: counts from the results, the 200 response
ReportSettled(r) ==
    /\ variant[r] = "settled" /\ pc[r] = "settling"
    /\ \A i \in DOMAIN results[r] : results[r][i] \in {"fulfilled", "rejected"}
    /\ UNCHANGED pureVars
    /\ processedCount' = [processedCount EXCEPT ![r] = Count(results[r], "fulfilled")]
    /\ errorCount' = [errorCount EXCEPT ![r] = Len(results[r]) - processedCount'[r]]
    /\ errors' = [errors EXCEPT ![r] = RejectedMessages(results[r])]
    /\ response' = [response EXCEPT ![r] =
            SummaryResponse(processedCount'[r], errorCount'[r], Len(releases[r]), errors'[r])]
    /\ pc' = [pc EXCEPT ![r] = "done"]
    /\ UNCHANGED <<dbVars, cfgVars, syncsLeft, variant, releases, idx, results,
                   tenderData, tenderId, fetchResult, histVars>>

Next ==
    \E r \in Runs :
        \/ StartLoop(r)
        \/ ProcessRelease(r)
        \/ DeleteDocuments(r)
        \/ InsertDocuments(r)
        \/ ReportLoop(r)
        \/ StartSettled(r)
        \/ \E i \in 1..LongLen : RpcUpsert(r, i)
        \/ ReportSettled(r)

Spec == Init /\ [][Next]_vars

\* one handler invocation at a time: sequential sync runs
InitSeq == InitWith(ShortPages, {1}, MaxSyncs) /\ StatusIdle /\ ClassIdle /\ RetryIdle /\ HookIdle
    /\ UrlIdle /\ ExtIdle

SpecSeq == InitSeq /\ [][Next]_vars

\* every call a run awaits returns: the feed and the backend answer
RunsProceed ==
    \A r \in Runs :
        /\ WF_vars(ProcessRelease(r))
        /\ WF_vars(DeleteDocuments(r))
        /\ WF_vars(InsertDocuments(r))
        /\ WF_vars(ReportLoop(r))
        /\ WF_vars(\E i \in 1..LongLen : RpcUpsert(r, i))
        /\ WF_vars(ReportSettled(r))

SpecSeqFair == SpecSeq /\ RunsProceed

\* one sync run over a long page
InitBatch == InitWith(LongPages, {1}, 1) /\ StatusIdle /\ ClassIdle /\ RetryIdle /\ HookIdle
    /\ UrlIdle /\ ExtIdle

SpecBatch == InitBatch /\ [][Next]_vars

\* ------------------------------------------------- normalizing over time
\* no sync request is served
SyncIdle == InitWith({}, {}, 0)

\* the wall clock advances
Tick ==
    /\ today < MaxTime
    /\ today' = today + 1
    /\ UNCHANGED <<rawRelease, status, statusAt, prevStatus, syncVars, extVars, classVars,
                   retryVars, hookVars, urlVars>>

\* transformRelease runs on the release at the current instant
Normalize ==
    /\ status' = resolveStatus(rawRelease, today)
    /\ statusAt' = today
    /\ prevStatus' = status
    /\ UNCHANGED <<today, rawRelease, syncVars, extVars, classVars, retryVars, hookVars,
                   urlVars>>

\* one raw release, fixed, normalized any number of times as time passes
InitStatus ==
    /\ SyncIdle
    /\ ExtIdle
    /\ ClassIdle
    /\ RetryIdle
    /\ HookIdle
    /\ UrlIdle
    /\ today = 0
    /\ rawRelease \in RawReleases
    /\ status = "none"
    /\ statusAt = 0
    /\ prevStatus = "none"

NextStatus == Tick \/ Normalize

SpecStatus == InitStatus /\ [][NextStatus]_vars

\* ------------------------------------------------- classifying a release
\* transformRelease of handler v derives the province
MapProvince(v) ==
    /\ province' = IF v = "loop" THEN mapProvince(ocdsRelease)
                   ELSE mapProvince_compact(ocdsRelease)
    /\ provinceBy' = v
    /\ UNCHANGED <<ocdsRelease, industry, industryBy, syncVars, extVars, statusVars,
                   retryVars, hookVars, urlVars>>

\* transformRelease of handler v derives the industry
CategorizeIndustry(v) ==
    /\ industry' = IF v = "loop" THEN categorizeIndustry(ocdsRelease)
                   ELSE categorizeIndustry_compact(ocdsRelease)
    /\ industryBy' = v
    /\ UNCHANGED <<ocdsRelease, province, provinceBy, syncVars, extVars, statusVars,
                   retryVars, hookVars, urlVars>>

InitClassify ==
    /\ SyncIdle
    /\ ExtIdle
    /\ StatusIdle
    /\ RetryIdle
    /\ HookIdle
    /\ UrlIdle
    /\ ocdsRelease \in OcdsReleases
    /\ province = "none"
    /\ provinceBy = "none"
    /\ industry = "none"
    /\ industryBy = "none"

NextClassify ==
    \E v \in Variants : MapProvince(v) \/ CategorizeIndustry(v)

SpecClassify == InitClassify /\ [][NextClassify]_vars

\* -------------------------------------------------- a call of withRetry
\* one pass of the loop body: operation() is awaited; it resolves, or rejects
\* and the catch block decides between rethrowing, leaving the loop and
\* sleeping before the next attempt
Operation ==
    /\ retryPc = "calling"
    /\ invoked' = invoked + 1
    /\ \/ /\ retryPc' = "returned"
          /\ UNCHANGED <<caught, thrown>>
       \/ \E error \in Errors :
             /\ caught' = error
             /\ IF error.class = "ValidationError" \/ IsClientError(error)
                THEN retryPc' = "thrown" /\ thrown' = error
                ELSE IF attempt = maxRetries
                THEN retryPc' = "thrown" /\ thrown' = FailedAfter(maxRetries, error)
                ELSE IF ~isNetworkError(error) /\ ~IsServerError(error)
                THEN retryPc' = "thrown" /\ thrown' = error
                ELSE retryPc' = "sleeping" /\ UNCHANGED thrown
    /\ UNCHANGED <<maxRetries, attempt, syncVars, extVars, statusVars, classVars, hookVars,
                   urlVars>>

\* await sleep(delay) ends; attempt++
Sleep ==
    /\ retryPc = "sleeping"
    /\ attempt' = attempt + 1
    /\ retryPc' = "calling"
    /\ UNCHANGED <<maxRetries, invoked, caught, thrown, syncVars, extVars, statusVars,
                   classVars, hookVars, urlVars>>

\* withRetry(operation, maxRetries) has just been called
InitRetry ==
    /\ SyncIdle
    /\ ExtIdle
    /\ StatusIdle
    /\ ClassIdle
    /\ HookIdle
    /\ UrlIdle
    /\ maxRetries \in 0..RetryLimit
    /\ attempt = 0
    /\ retryPc = "calling"
    /\ invoked = 0
    /\ caught = NoError
    /\ thrown = NoError

NextRetry == Operation \/ Sleep

SpecRetry == InitRetry /\ [][NextRetry]_vars

\* every call of the operation settles and every sleep ends
SpecRetryFair == SpecRetry /\ WF_vars(Operation) /\ WF_vars(Sleep)

\* ------------------------------------------------- useDebouncedCallback
otherVars == <<syncVars, statusVars, classVars, retryVars, urlVars, extVars>>

\* the timer clock advances; a timeout that is due runs first
Advance ==
    /\ time < MaxClock
    /\ timeoutRef = NoTimer \/ time < timeoutRef.due
    /\ debounceTimeoutRef = NoTimer \/ time < debounceTimeoutRef.due
    /\ time' = time + 1
    /\ UNCHANGED <<mounted, debounceVars, searchVars, otherVars>>

\* debouncedCallback(...args): clearTimeout, then setTimeout(..., delay)
CallDebounced(args) ==
    /\ Len(calls) < MaxCalls
    /\ calls' = Append(calls, [at |-> time, args |-> args])
    /\ timeoutRef' = [due |-> time + DebounceDelay, args |-> args,
                      call |-> Len(calls) + 1]
    /\ UNCHANGED <<clockVars, fired, searchVars, otherVars>>

\* the timeout runs: callbackRef.current(...args)
TimeoutRuns ==
    /\ timeoutRef # NoTimer
    /\ time >= timeoutRef.due
    /\ fired' = Append(fired, [at |-> time, args |-> timeoutRef.args,
                               call |-> timeoutRef.call, mounted |-> mounted])
    /\ timeoutRef' = NoTimer
    /\ UNCHANGED <<clockVars, calls, searchVars, otherVars>>

\* the component unmounts: the cleanup of the last effect clears the timeout
UnmountCallback ==
    /\ mounted
    /\ mounted' = FALSE
    /\ timeoutRef' = NoTimer
    /\ UNCHANGED <<time, calls, fired, searchVars, otherVars>>

\* a component has rendered useDebouncedCallback(callback, DebounceDelay)
InitDebounce ==
    /\ SyncIdle /\ StatusIdle /\ ClassIdle /\ RetryIdle /\ UrlIdle /\ ExtIdle
    /\ time = 0
    /\ mounted = TRUE
    /\ timeoutRef = NoTimer
    /\ calls = <<>>
    /\ fired = <<>>
    /\ searchTerm = ""
    /\ debouncedSearchTerm = ""
    /\ filters = NoFilters
    /\ debounceTimeoutRef = NoTimer
    /\ termSince = 0

NextDebounce ==
    \/ Advance
    \/ \E args \in Arguments : CallDebounced(args)
    \/ TimeoutRuns
    \/ UnmountCallback

SpecDebounce == InitDebounce /\ [][NextDebounce]_vars

\* --------------------------------------------------- useDebouncedSearch
\* the effect on [searchTerm, debounceDelay]: the cleanup of the previous run
\* clears the timeout, then a new one is set for the term
SearchTimeout(term) ==
    [due |-> time + DebounceDelay, args |-> term, call |-> 0]

\* setSearchTerm(term): a state update with the same value renders nothing
SetSearchTerm(term) ==
    /\ mounted
    /\ term # searchTerm
    /\ searchTerm' = term
    /\ termSince' = time
    /\ debounceTimeoutRef' = SearchTimeout(term)
    /\ UNCHANGED <<clockVars, debouncedSearchTerm, filters, debounceVars,
                   otherVars>>

\* the timeout runs: setDebouncedSearchTerm(searchTerm), and when that changes
\* the state the second effect copies it into filters.search
SearchTimeoutRuns ==
    /\ debounceTimeoutRef # NoTimer
    /\ time >= debounceTimeoutRef.due
    /\ debouncedSearchTerm' = debounceTimeoutRef.args
    /\ filters' = IF debounceTimeoutRef.args = debouncedSearchTerm THEN filters
                  ELSE [filters EXCEPT !.search =
                            OrUndefined(debounceTimeoutRef.args)]
    /\ debounceTimeoutRef' = NoTimer
    /\ UNCHANGED <<clockVars, searchTerm, termSince, debounceVars, otherVars>>

\* updateFilters(newFilters)
UpdateFilters(newFilters) ==
    /\ mounted
    /\ filters' = MergeFilters(filters, newFilters)
    /\ UNCHANGED <<clockVars, searchTerm, termSince, debouncedSearchTerm,
                   debounceTimeoutRef, debounceVars, otherVars>>

\* resetFilters(): the three setters at once, then the effects of the render
ResetFilters ==
    /\ mounted
    /\ searchTerm' = ""
    /\ debouncedSearchTerm' = ""
    /\ filters' = NoFilters
    /\ IF searchTerm = ""
       THEN UNCHANGED <<termSince, debounceTimeoutRef>>
       ELSE termSince' = time /\ debounceTimeoutRef' = SearchTimeout("")
    /\ UNCHANGED <<clockVars, debounceVars, otherVars>>

\* the component unmounts: the cleanup of the effect clears the timeout
UnmountSearch ==
    /\ mounted
    /\ mounted' = FALSE
    /\ debounceTimeoutRef' = NoTimer
    /\ UNCHANGED <<time, searchTerm, termSince, debouncedSearchTerm, filters,
                   debounceVars, otherVars>>

\* a component has rendered useDebouncedSearch(initialFilters, DebounceDelay)
\* and its effects have run
InitSearch ==
    /\ SyncIdle /\ StatusIdle /\ ClassIdle /\ RetryIdle /\ UrlIdle /\ ExtIdle
    /\ time = 0
    /\ mounted = TRUE
    /\ timeoutRef = NoTimer
    /\ calls = <<>>
    /\ fired = <<>>
    /\ \E initialFilters \in InitialFilters :
          /\ searchTerm = OrEmpty(initialFilters.search)
          /\ debouncedSearchTerm = OrEmpty(initialFilters.search)
          /\ filters = initialFilters
          /\ debounceTimeoutRef =
                 [due |-> DebounceDelay, args |-> OrEmpty(initialFilters.search),
                  call |-> 0]
    /\ termSince = 0

NextSearch ==
    \/ Advance
    \/ \E term \in Terms : SetSearchTerm(term)
    \/ SearchTimeoutRuns
    \/ \E newFilters \in NewFilters : UpdateFilters(newFilters)
    \/ ResetFilters
    \/ UnmountSearch

SpecSearch == InitSearch /\ [][NextSearch]_vars

\* ------------------------------------------------------------- updateUrl
\* updateUrl(options); router.push(newUrl) makes the new parameters current.
\* The guarded hook pushes only when an option was given, the other always.
UpdateUrl(options) ==
    /\ urlCalls < MaxUrlCalls
    /\ urlCalls' = urlCalls + 1
    /\ lastOptions' = options
    /\ prevParams' = searchParams
    /\ IF urlSync = "guarded" /\ options.named = {}
       THEN pushed' = FALSE /\ UNCHANGED searchParams
       ELSE /\ pushed' = TRUE
            /\ searchParams' = UpdatedParams(searchParams, options)
    /\ UNCHANGED <<urlSync, syncVars, extVars, statusVars, classVars, retryVars, hookVars>>

\* a page using one of the two hooks is open at some URL
InitUrl ==
    /\ SyncIdle /\ StatusIdle /\ ClassIdle /\ RetryIdle /\ HookIdle /\ ExtIdle
    /\ searchParams \in StartParams
    /\ urlSync \in {"guarded", "unguarded"}
    /\ pushed = FALSE
    /\ urlCalls = 0
    /\ lastOptions = NoOptions
    /\ prevParams = NoParams

NextUrl == \E options \in UrlOptions : UpdateUrl(options)

SpecUrl == InitUrl /\ [][NextUrl]_vars

\* ------------------------------------------------------ TenderListingPage
\* what a handler of the listing page leaves alone
listingFrame ==
    <<syncVars, statusVars, classVars, retryVars, clockVars, debounceVars,
      urlSync, pushed, urlCalls, lastOptions, prevParams, getVars, closingVars>>

\* handleSearchChange(value)
handleSearchChange(value) ==
    /\ mounted
    /\ handled' = "handleSearchChange"
    /\ IF value = searchTerm
       THEN UNCHANGED <<searchTerm, termSince, debounceTimeoutRef>>
       ELSE /\ searchTerm' = value
            /\ termSince' = time
            /\ debounceTimeoutRef' = SearchTimeout(value)
    /\ currentPage' = 1
    /\ searchParams' =
          IF currentPage # 1
          THEN UpdatedParams(searchParams,
                             Options({"page", "search"}, 1, DefaultPageSize, value, "all", ""))
          ELSE UpdatedParams(searchParams,
                             Options({"search"}, 1, DefaultPageSize, value, "all", ""))
    /\ UNCHANGED <<pageSize, debouncedSearchTerm, filters, listingFrame>>

\* handleSearchClear()
handleSearchClear ==
    /\ mounted
    /\ handled' = "handleSearchClear"
    /\ IF searchTerm = ""
       THEN UNCHANGED <<searchTerm, termSince, debounceTimeoutRef>>
       ELSE /\ searchTerm' = ""
            /\ termSince' = time
            /\ debounceTimeoutRef' = SearchTimeout("")
    /\ currentPage' = 1
    /\ searchParams' =
          UpdatedParams(searchParams,
                        Options({"page", "search"}, 1, DefaultPageSize, "", "all", ""))
    /\ UNCHANGED <<pageSize, debouncedSearchTerm, filters, listingFrame>>

\* handleFilterChange(newFilters)
handleFilterChange(newFilters) ==
    /\ mounted
    /\ handled' = "handleFilterChange"
    /\ filters' = MergeFilters(filters, newFilters)
    /\ currentPage' = 1
    /\ searchParams' =
          UpdatedParams(searchParams,
                        Options({"page", "province", "industry"}, 1, DefaultPageSize, " ",
                                OrBlank(newFilters.province), OrBlank(newFilters.industry)))
    /\ UNCHANGED <<pageSize, searchTerm, termSince, debouncedSearchTerm,
                   debounceTimeoutRef, listingFrame>>

\* handleFilterReset()
handleFilterReset ==
    /\ mounted
    /\ handled' = "handleFilterReset"
    /\ searchTerm' = ""
    /\ debouncedSearchTerm' = ""
    /\ filters' = NoFilters
    /\ IF searchTerm = ""
       THEN UNCHANGED <<termSince, debounceTimeoutRef>>
       ELSE termSince' = time /\ debounceTimeoutRef' = SearchTimeout("")
    /\ currentPage' = 1
    /\ searchParams' =
          UpdatedParams(searchParams,
                        Options({"page", "search", "province", "industry"}, 1,
                                DefaultPageSize, "", "", ""))
    /\ UNCHANGED <<pageSize, listingFrame>>

\* handlePageChange(page)
handlePageChange(page) ==
    /\ mounted
    /\ handled' = "handlePageChange"
    /\ currentPage' = page
    /\ searchParams' =
          UpdatedParams(searchParams,
                        Options({"page"}, page, DefaultPageSize, " ", "all", ""))
    /\ UNCHANGED <<pageSize, searchVars, listingFrame>>

\* mutant: the page size changes and the page stays
handlePageSizeChange_keepsPage(newPageSize) ==
    /\ mounted
    /\ handled' = "handlePageSizeChange"
    /\ pageSize' = newPageSize
    /\ searchParams' =
          UpdatedParams(searchParams,
                        Options({"pageSize"}, 1, newPageSize, " ", "all", ""))
    /\ UNCHANGED <<currentPage, searchVars, listingFrame>>

\* handlePageSizeChange(newPageSize)
handlePageSizeChange(newPageSize) ==
    /\ mounted
    /\ handled' = "handlePageSizeChange"
    /\ pageSize' = newPageSize
    /\ currentPage' = 1
    /\ searchParams' =
          UpdatedParams(searchParams,
                        Options({"page", "pageSize"}, 1, newPageSize, " ", "all", ""))
    /\ UNCHANGED <<searchVars, listingFrame>>

\* the listing page has rendered at some URL: its state comes from
\* getUrlParams, the search hook starts from the URL's filters
InitListing ==
    /\ SyncIdle /\ StatusIdle /\ ClassIdle /\ RetryIdle /\ GetIdle /\ ClosingIdle
    /\ searchParams \in ListingUrls
    /\ urlSync \in {"guarded", "unguarded"}
    /\ pushed = FALSE
    /\ urlCalls = 0
    /\ lastOptions = NoOptions
    /\ prevParams = NoParams
    /\ currentPage = getUrlParams(searchParams, urlSync).page
    /\ pageSize = getUrlParams(searchParams, urlSync).pageSize
    /\ handled = "none"
    /\ time = 0
    /\ mounted = TRUE
    /\ timeoutRef = NoTimer
    /\ calls = <<>>
    /\ fired = <<>>
    /\ searchTerm = getUrlParams(searchParams, urlSync).search
    /\ debouncedSearchTerm = getUrlParams(searchParams, urlSync).search
    /\ filters = [search |-> getUrlParams(searchParams, urlSync).search,
                  province |-> OrUndefined(getUrlParams(searchParams, urlSync).province)]
    /\ debounceTimeoutRef =
           [due |-> DebounceDelay, args |-> getUrlParams(searchParams, urlSync).search,
            call |-> 0]
    /\ termSince = 0

NextListing ==
    \/ Advance
    \/ SearchTimeoutRuns
    \/ \E value \in Terms : handleSearchChange(value)
    \/ handleSearchClear
    \/ \E newFilters \in PanelFilters : handleFilterChange(newFilters)
    \/ handleFilterReset
    \/ \E page \in PageButtons : handlePageChange(page)
    \/ \E newPageSize \in PageSizeOptions : handlePageSizeChange(newPageSize)

SpecListing == InitListing /\ [][NextListing]_vars

\* ----------------------------------------------------- get-tenders: serve
\* what the steps of get-tenders leave alone
getFrame ==
    <<syncVars, statusVars, classVars, retryVars, hookVars, urlVars, listingVars,
      closingVars>>

ValidationErrorResponse(list) ==
    [status |-> 400, code |-> "VALIDATION_ERROR", details |-> list, rows |-> 0,
     pagination |-> NoPagination]

DatabaseErrorResponse ==
    [status |-> 500, code |-> "DATABASE_ERROR", details |-> <<>>, rows |-> 0,
     pagination |-> NoPagination]

\* a POST arrives: the body is parsed and validated
Receive(request) ==
    /\ getPc = "idle"
    /\ requestBody' = request
    /\ IF validateGetTendersRequest(request) # <<>>
       THEN /\ getResponse' = ValidationErrorResponse(validateGetTendersRequest(request))
            /\ getPc' = "done"
       ELSE /\ getResponse' = NoGetResponse
            /\ getPc' = "search"
    /\ UNCHANGED <<catalog, searchResults, rpcCalls, getFrame>>

\* supabase.rpc('search_tenders', ...)
SearchTenders ==
    /\ getPc = "search"
    /\ rpcCalls' = Append(rpcCalls, "search_tenders")
    /\ \/ /\ searchResults' = search_tenders(catalog, SearchArguments(requestBody))
          /\ getPc' = "stats"
          /\ UNCHANGED getResponse
       \/ /\ getResponse' = DatabaseErrorResponse
          /\ getPc' = "done"
          /\ UNCHANGED searchResults
    /\ UNCHANGED <<catalog, requestBody, getFrame>>

\* supabase.rpc('get_platform_stats')
PlatformStats ==
    /\ getPc = "stats"
    /\ rpcCalls' = Append(rpcCalls, "get_platform_stats")
    /\ \/ getPc' = "options" /\ UNCHANGED getResponse
       \/ getResponse' = DatabaseErrorResponse /\ getPc' = "done"
    /\ UNCHANGED <<catalog, requestBody, searchResults, getFrame>>

\* supabase.rpc('get_filter_options'), then the response is built
FilterOptions ==
    /\ getPc = "options"
    /\ rpcCalls' = Append(rpcCalls, "get_filter_options")
    /\ getPc' = "done"
    /\ \/ getResponse' =
             [status |-> 200, code |-> "ok", details |-> <<>>,
              rows |-> searchResults.rows,
              pagination |-> Pagination(requestBody, searchResults)]
       \/ getResponse' = DatabaseErrorResponse
    /\ UNCHANGED <<catalog, requestBody, searchResults, getFrame>>

\* the function is deployed over some table of tenders
InitGet ==
    /\ SyncIdle /\ StatusIdle /\ ClassIdle /\ RetryIdle /\ HookIdle /\ UrlIdle
    /\ ListingIdle /\ ClosingIdle
    /\ \E n \in CatalogSizes : catalog = {CatalogTender(i) : i \in 1..n}
    /\ requestBody = EmptyRequest
    /\ getPc = "idle"
    /\ searchResults = NoResults
    /\ rpcCalls = <<>>
    /\ getResponse = NoGetResponse

NextGet ==
    \/ \E request \in Requests : Receive(request)
    \/ SearchTenders
    \/ PlatformStats
    \/ FilterOptions

SpecGet == InitGet /\ [][NextGet]_vars

\* ------------------------------------------- the closing date over time
\* the wall clock advances
ClockTick ==
    /\ today < MaxTime
    /\ today' = today + 1
    /\ UNCHANGED <<rawRelease, status, statusAt, prevStatus, closingVars, syncVars,
                   classVars, retryVars, hookVars, urlVars, listingVars, getVars>>

\* transformRelease runs on the release at the current instant
TransformRelease ==
    /\ status' = resolveStatus(rawRelease, today)
    /\ statusAt' = today
    /\ prevStatus' = status
    /\ date_closing' = closingDate(rawRelease, today)
    /\ prevClosing' = date_closing
    /\ UNCHANGED <<today, rawRelease, releaseDate, syncVars, classVars, retryVars,
                   hookVars, urlVars, listingVars, getVars>>

\* one raw release, published at some instant not after now, is normalized
\* any number of times as time passes
InitClosing ==
    /\ SyncIdle /\ ClassIdle /\ RetryIdle /\ HookIdle /\ UrlIdle
    /\ ListingIdle /\ GetIdle
    /\ today \in 0..MaxTime
    /\ rawRelease \in RawReleases
    /\ releaseDate \in 0..today
    /\ status = "none"
    /\ statusAt = 0
    /\ prevStatus = "none"
    /\ date_closing = NoDate
    /\ prevClosing = NoDate

NextClosing == ClockTick \/ TransformRelease

SpecClosing == InitClosing /\ [][NextClosing]_vars

\* ------------------------------------------------------------------ claims
RowsOf(ocid) == {row \in tenders : row.ocid = ocid}

PageOcids(r) == {releases[r][i].ocid : i \in DOMAIN releases[r]}

\* C1: whatever sync runs have upserted, sequentially or overlapping, the
\* table tenders never holds two rows with the same ocid.
C1_OneRowPerOcid ==
    \A o \in Ocids : Cardinality(RowsOf(o)) <= 1

\* a run has just upserted an ocid that was already stored, and one row is there
C1_Witness ==
    \E r \in Runs :
        /\ pc[r] = "delete" /\ call[r].existed
        /\ Cardinality(RowsOf(tenderData[r].ocid)) = 1

\* C2: two calls of the three-step upsertTender in a row that both return,
\* with the same record and the same documents, leave one tender row and,
\* after the second call, the document set that the first call left.
C2_Idempotent ==
    ( /\ prevCall.variant = "loop" /\ lastCall.variant = "loop"
      /\ ~prevCall.raised /\ ~lastCall.raised
      /\ prevCall.data = lastCall.data )
    => /\ Cardinality(RowsOf(lastCall.data.ocid)) = 1
       /\ lastCall.docsAfter = prevCall.docsAfter

\* C3: when upsertTender returns for a tender that had documents, the
\* tender's documents are exactly the new list.
C3_DocumentsReplaced ==
    ( /\ lastCall.run # 0 /\ lastCall.variant = "loop"
      /\ ~lastCall.raised /\ lastCall.hadDocs )
    => lastCall.docsAfter = BagOfSeq(lastCall.data.documents)

\* C4: a call of upsertTender during which a backend step failed (tender
\* upsert, document delete or document insert) raises to its caller.
C4_RaisesOnBackendFailure ==
    (lastCall.run # 0 /\ lastCall.stepFailed) => lastCall.raised

\* a release that cannot be stored whatever the backend does
BadRelease(release) ==
    TransformThrows(release) \/ ViolatesNotNull(transformRelease(release))

\* C5: once a page is fetched the run answers with a summary in which every
\* release is counted once, processed or failed, and a release that cannot
\* be transformed or stored is among the failed ones; with one such release
\* and no other failure the counts are N-1 and 1.
C5_BatchIsolation ==
    \A r \in Runs :
        (pc[r] = "done" /\ fetchResult[r] = "ok") =>
            /\ response[r].status = 200
            /\ response[r].total_fetched = Len(releases[r])
            /\ response[r].processed_count + response[r].error_count
                    = response[r].total_fetched
            /\ response[r].error_count = Count(results[r], "rejected")
            /\ \A i \in DOMAIN releases[r] :
                    BadRelease(releases[r][i]) => results[r][i] = "rejected"

\* C6: a summary carries at most 10 error messages, and its error_count is
\* the number of releases that failed.
C6_ErrorSampleBounded ==
    \A r \in Runs :
        response[r].status = 200 =>
            /\ Len(response[r].errors) <= ErrorSampleLimit
            /\ response[r].error_count = Count(results[r], "rejected")
            /\ response[r].error_count = Len(errors[r])

\* more releases failed than the summary carries messages
C6_Witness ==
    \E r \in Runs :
        /\ response[r].status = 200
        /\ response[r].error_count > ErrorSampleLimit
        /\ Len(response[r].errors) = ErrorSampleLimit

\* C7: the answer is 500 / success:false / SYNC_ERROR exactly when the
\* fetch of the page failed, and 200 / success:true whenever a page was fetched.
C7_Only500OnFetchFailure ==
    \A r \in Runs :
        pc[r] = "done" =>
            /\ response[r].status = 500 <=> fetchResult[r] = "failed"
            /\ fetchResult[r] = "ok" =>
                    (response[r].status = 200 /\ response[r].success)

\* the ocids of the failed releases, in page order
RejectedOcids(r) ==
    LET F[n \in 0..Len(results[r])] ==
          IF n = 0 THEN <<>>
          ELSE IF results[r][n] = "rejected"
               THEN Append(F[n - 1], releases[r][n].ocid)
               ELSE F[n - 1]
    IN F[Len(results[r])]

\* C8: each entry of the error list of a summarised run names the ocid of
\* the release whose failure it records.
C8_ErrorsNameOcid ==
    \A r \in Runs :
        response[r].status = 200 =>
            [k \in DOMAIN errors[r] |-> errors[r][k].ocid] = RejectedOcids(r)

\* C9: for every ocid that was upserted, by overlapping runs or not, there
\* is one row and its fields are all those of the last upsert statement on
\* that ocid.
C9_LastWriterWins ==
    \A o \in Ocids :
        lastWrite[o] # NoData =>
            \E row \in tenders :
                /\ RowsOf(o) = {row}
                /\ row.title = lastWrite[o].title
                /\ row.description = lastWrite[o].description

\* two runs are both inside upsertTender for the same ocid with different records
C9_Witness ==
    \E r1, r2 \in Runs :
        /\ r1 # r2
        /\ pc[r1] \in {"delete", "insert"} /\ pc[r2] \in {"delete", "insert"}
        /\ tenderData[r1].ocid = tenderData[r2].ocid
        /\ tenderData[r1] # tenderData[r2]

\* run r has an upsert of this ocid to do next (loop) or in flight (settled)
UpsertDue(r, ocid) ==
    \/ /\ variant[r] = "loop" /\ pc[r] = "loop" /\ idx[r] <= Len(releases[r])
       /\ releases[r][idx[r]].ocid = ocid
    \/ /\ variant[r] = "settled"
       /\ \E i \in DOMAIN results[r] :
                results[r][i] = "pending" /\ releases[r][i].ocid = ocid

\* C10: no step removes a tender row or changes its id or ocid, and a row
\* changes only in a step of a run whose page has a release of its ocid to
\* upsert; the rows of all other ocids stay as they are.
C10_NeverDeletes ==
    [][ \A row \in tenders :
            \E kept \in tenders' :
                /\ kept.id = row.id /\ kept.ocid = row.ocid
                /\ kept # row => \E r \in Runs : UpsertDue(r, row.ocid) ]_vars

\* a run has upserted from a page that lacks the ocid of a stored tender
C10_Witness ==
    \E row \in tenders, r \in Runs :
        /\ lastCall.run = r /\ ~lastCall.raised
        /\ pc[r] = "done" /\ response[r].processed_count > 0
        /\ row.ocid \notin PageOcids(r)

\* C11: an upsert statement for an ocid that already has a row replaces the
\* row's title and description by the new record's values (a null description
\* becomes null) and sets updated_at to the instant of the statement, which is
\* later than the previous one.
C11_UpdateReplacesFields ==
    [][\A row \in tenders :
          lastWriteAt'[row.ocid] # lastWriteAt[row.ocid] =>
              \E new \in tenders' :
                  /\ new.id = row.id
                  /\ new.ocid = row.ocid
                  /\ new.title = lastWrite'[row.ocid].title
                  /\ new.description = lastWrite'[row.ocid].description
                  /\ new.updated_at = now'
                  /\ new.updated_at > row.updated_at]_vars

\* a row whose description was set by one call is null after the next call
\* for the same ocid, and its update timestamp has moved past its creation
C11_Witness ==
    /\ prevCall.data # NoData
    /\ lastCall.existed
    /\ prevCall.data.ocid = lastCall.data.ocid
    /\ prevCall.data.description # NULL
    /\ lastCall.data.description = NULL
    /\ \E row \in tenders :
           /\ row.ocid = lastCall.data.ocid
           /\ row.description = NULL
           /\ row.updated_at = now
           /\ row.updated_at > row.created_at

\* C12: the derived status follows the decision order: raw status cancelled
\* gives cancelled whatever else holds; otherwise raw status complete or an
\* award gives awarded whatever the closing date; otherwise a closing date
\* strictly before the instant of normalization gives closed; otherwise open.
C12_StatusDecisionOrder ==
    status # "none" =>
        LET raw == rawRelease.status
            awarded == rawRelease.awards = 1
            passed == rawRelease.endDate \in 0..(statusAt - 1)
        IN  /\ raw = "cancelled" => status = "cancelled"
            /\ raw # "cancelled" /\ (raw = "complete" \/ awarded)
                   => status = "awarded"
            /\ raw \notin {"cancelled", "complete"} /\ ~awarded /\ passed
                   => status = "closed"
            /\ raw \notin {"cancelled", "complete"} /\ ~awarded /\ ~passed
                   => status = "open"

\* an awarded release whose closing date has passed was normalized
C12_Witness ==
    /\ status = "awarded"
    /\ rawRelease.status = "active"
    /\ rawRelease.awards = 1
    /\ rawRelease.endDate # NoDate
    /\ rawRelease.endDate < statusAt

\* the releases C13 speaks of: a closing date, no award, raw status neither
\* cancelled nor complete
Lapsing ==
    /\ rawRelease.endDate # NoDate
    /\ ~HasAwards(rawRelease)
    /\ rawRelease.status \notin {"cancelled", "complete"}

\* C13: for such a release, a normalization before the closing date yields
\* open, one after it yields closed, and a later normalization never yields
\* open after an earlier one yielded closed.
C13_OpenThenClosed ==
    (Lapsing /\ status # "none") =>
        /\ statusAt < rawRelease.endDate => status = "open"
        /\ statusAt > rawRelease.endDate => status = "closed"
        /\ ~(prevStatus = "closed" /\ status = "open")

\* the same release was normalized to open and, later, to closed
C13_Witness ==
    /\ Lapsing
    /\ prevStatus = "open"
    /\ status = "closed"
    /\ statusAt > rawRelease.endDate

\* the lookup table of the handler that derived the province
ProvinceTable ==
    IF provinceBy = "loop" THEN PROVINCE_MAPPING ELSE PROVINCE_MAPPING_compact

\* the text holds a key of the table
HoldsKey(text) == \E key \in KeysOf(ProvinceTable) : Includes(text, key)

\* C14: the province comes from the buyer region, then the locality, then
\* title and description, first match wins: a region that is a key after
\* lower-casing and trimming decides; with no key in the region, a locality
\* that is a key decides; with no key in either, a key in the text decides;
\* with no key in region, locality or text the province is "National".
C14_ProvincePriority ==
    provinceBy # "none" =>
        LET region == trim(toLowerCase(OrEmpty(ocdsRelease.region)))
            locality == trim(toLowerCase(OrEmpty(ocdsRelease.locality)))
            text == toLowerCase(TitleAndDescription(ocdsRelease))
            keys == KeysOf(ProvinceTable)
        IN  /\ region \in keys => province = ValueOf(ProvinceTable, region)
            /\ ~HoldsKey(region) /\ locality \in keys
                   => province = ValueOf(ProvinceTable, locality)
            /\ ~HoldsKey(region) /\ ~HoldsKey(locality) /\ HoldsKey(text)
                   => \E key \in keys :
                          /\ Includes(text, key)
                          /\ province = ValueOf(ProvinceTable, key)
            /\ ~HoldsKey(region) /\ ~HoldsKey(locality) /\ ~HoldsKey(text)
                   => province = "National"

\* the keyword table of the handler that derived the industry
IndustryTable ==
    IF industryBy = "loop" THEN INDUSTRY_KEYWORDS ELSE INDUSTRY_KEYWORDS_compact

\* C15: the industry is the first category, in table order, with a keyword in
\* the lower-cased concatenation of title, description and the first item's
\* classification description, and "Other" when there is none.
C15_FirstCategoryInTableOrder ==
    industryBy # "none" =>
        industry = FirstCategory(IndustryTable, IndustryText(ocdsRelease))

\* the failures C16 calls non-retryable
NonRetryable(error) ==
    \/ error.class = "ValidationError"
    \/ error.class = "ApiError" /\ error.status \in 400..499
    \/ ~isNetworkError(error)
       /\ ~(error.class = "ApiError" /\ error.status \in 500..599)

\* C16: when the last failure of the operation is a ValidationError, an
\* ApiError of status 4xx, or neither a network error nor an ApiError of
\* status 5xx, withRetry has ended without calling the operation again and
\* has thrown that very error.
C16_NoRetryOfNonRetryable ==
    (caught # NoError /\ NonRetryable(caught) /\ retryPc # "returned") =>
        /\ retryPc = "thrown"
        /\ thrown = caught

\* C17: every run of the wrapped callback belongs to one call of the debounced
\* function, has that call's arguments, happens while the component is
\* mounted and no sooner than the delay after the call, with no other call in
\* between; no call runs twice, and of two calls less than the delay apart
\* the earlier one never runs.
C17_OnlyQuietMountedCallsFire ==
    /\ \A k \in DOMAIN fired :
          LET run == fired[k]
              c == calls[run.call]
          IN  /\ run.args = c.args
              /\ run.at >= c.at + DebounceDelay
              /\ run.mounted
              /\ \A j \in DOMAIN calls :
                     j > run.call => calls[j].at >= c.at + DebounceDelay
              /\ \A h \in DOMAIN fired : fired[h].call = run.call => h = k
    /\ \A i, j \in DOMAIN calls :
          (i < j /\ calls[j].at < calls[i].at + DebounceDelay)
              => \A k \in DOMAIN fired : fired[k].call # i

\* C18: whenever debouncedSearchTerm or filters.search takes a new value, the
\* value is the one searchTerm has held for at least the debounce delay; a
\* change of searchTerm itself shows at once and touches neither of them.
C18_DebouncedTermWasHeld ==
    [][/\ debouncedSearchTerm' # debouncedSearchTerm =>
              /\ debouncedSearchTerm' = searchTerm
              /\ time >= termSince + DebounceDelay
       /\ filters'.search # filters.search =>
              /\ filters'.search = OrUndefined(searchTerm)
              /\ time >= termSince + DebounceDelay]_vars

\* what C19 says the parameter of a named option becomes: removed for a
\* default value, else the value of the option
NamedValue(key, options) ==
    IF key = "page"
    THEN IF options.page <= 1 THEN NULL ELSE ToString(options.page)
    ELSE IF key = "pageSize"
    THEN IF options.pageSize = 12 THEN NULL ELSE ToString(options.pageSize)
    ELSE IF key = "search"
    THEN IF trim(options.search) = "" THEN NULL ELSE options.search
    ELSE IF options[key] \in {"", "all"} THEN NULL ELSE options[key]

\* C19 as stated: after updateUrl(options) each named parameter holds the
\* value of its option, or is gone when that value is the default, and every
\* other parameter holds what it held before the call.
C19_AsStated ==
    urlCalls > 0 =>
        \A key \in UrlKeys :
            searchParams[key] =
                IF key \in lastOptions.named THEN NamedValue(key, lastOptions)
                ELSE prevParams[key]

\* C19, amended: the same, except that the search parameter holds the value
\* of the option with the surrounding whitespace trimmed off.
C19_OnlyNamedParametersChange ==
    urlCalls > 0 =>
        \A key \in UrlKeys :
            searchParams[key] =
                IF key \notin lastOptions.named THEN prevParams[key]
                ELSE IF key = "search" /\ NamedValue(key, lastOptions) # NULL
                THEN trim(lastOptions.search)
                ELSE NamedValue(key, lastOptions)

\* a call named the page and a padded search term; the parameters it did not
\* name are still there
C19_Witness ==
    /\ urlCalls > 0
    /\ lastOptions.named = {"page", "search"}
    /\ lastOptions.search = " road "
    /\ searchParams["search"] = "road"
    /\ searchParams["page"] = NULL
    /\ prevParams["page"] = "3"
    /\ searchParams["sort"] = "asc"
    /\ searchParams["pageSize"] = "24"

\* C20: an updateUrl whose options name no parameter does not call
\* router.push and leaves the parameters of the URL as they were.
C20_NoOptionsNoNavigation ==
    (urlCalls > 0 /\ lastOptions.named = {}) =>
        /\ ~pushed
        /\ searchParams = prevParams

\* the handlers of the listing page that change what is listed
ResettingHandlers ==
    {"handleSearchChange", "handleSearchClear", "handleFilterChange",
     "handleFilterReset", "handlePageSizeChange"}

\* C21 as stated: after every change of the page size, of the search term or
\* of the filters and after every filter reset the current page is 1 and the
\* URL holds no page parameter; a page other than 1 is only there when the
\* page was opened on it or an explicit page change was the last handler.
C21_AsStated ==
    /\ handled \in ResettingHandlers =>
          currentPage = 1 /\ searchParams["page"] = NULL
    /\ currentPage # 1 => handled \in {"none", "handlePageChange"}

\* C21: after every change of the page size, of the search term or of the
\* filters and after every filter reset the current page is 1 and the URL
\* reads as page 1; its page parameter is removed, except after a search
\* change, which may leave a page parameter behind that reads as page 1; a
\* page other than 1 is only there when the page was opened on it or an
\* explicit page change was the last handler.
C21_ResetToFirstPage ==
    /\ handled \in ResettingHandlers =>
          /\ currentPage = 1
          /\ getUrlParams(searchParams, urlSync).page = 1
          /\ handled # "handleSearchChange" => searchParams["page"] = NULL
    /\ currentPage # 1 => handled \in {"none", "handlePageChange"}

\* the page size was changed on a page opened at page 3, and the page is 1
C21_Witness ==
    /\ handled = "handlePageSizeChange"
    /\ pageSize = 24
    /\ currentPage = 1
    /\ searchParams["pageSize"] = "24"
    /\ searchParams["page"] = NULL
    /\ searchParams["search"] = "road"

\* the request breaks one of the validation rules; a string field counts
\* when present(x) says it is there
BreaksRule(request, present(_)) ==
    \/ request.page.defined
          /\ ~(NumberIsInteger(request.page) /\ IntegerValue(request.page) >= 1)
    \/ request.page_size.defined
          /\ ~(/\ NumberIsInteger(request.page_size)
               /\ IntegerValue(request.page_size) \in {12, 24, 48})
    \/ present(request.sort_by)
          /\ request.sort_by \notin {"date_published", "date_closing", "value_amount",
                                     "title"}
    \/ present(request.sort_order) /\ request.sort_order \notin {"asc", "desc"}
    \/ present(request.status)
          /\ request.status \notin {"open", "closed", "cancelled", "awarded"}
    \/ present(request.date_from) /\ ~IsDateForm(request.date_from)
    \/ present(request.date_to) /\ ~IsDateForm(request.date_to)
    \/ /\ present(request.date_from) /\ present(request.date_to)
       /\ isValidDate(request.date_from) /\ isValidDate(request.date_to)
       /\ DayNumber(request.date_from) > DayNumber(request.date_to)
    \/ request.min_value.defined /\ request.min_value.halves < 0
    \/ request.max_value.defined /\ request.max_value.halves < 0
    \/ /\ request.min_value.defined /\ request.max_value.defined
       /\ request.min_value.halves > request.max_value.halves
    \/ present(request.search) /\ Len(request.search) > 500

IsThere(x) == x # Absent

\* the request was answered 400 VALIDATION_ERROR without a database call
Rejected ==
    /\ getPc = "done"
    /\ getResponse.status = 400
    /\ getResponse.code = "VALIDATION_ERROR"
    /\ rpcCalls = <<>>

C28_PaginationMetadata ==
    getResponse.status = 200 =>
        LET pagination == getResponse.pagination
        IN  /\ pagination.total_count =
                   Cardinality(MatchingTenders(catalog, SearchArguments(requestBody)))
            /\ pagination.total_pages * pagination.page_size >= pagination.total_count
            /\ (pagination.total_pages - 1) * pagination.page_size
                   < pagination.total_count
            /\ pagination.has_next <=> pagination.current_page < pagination.total_pages
            /\ pagination.has_previous <=> pagination.current_page > 1

\* the request the listing page builds from its state
tendersRequest ==
    [EmptyRequest EXCEPT !.page = Number(currentPage), !.page_size = Number(pageSize)]

\* C29: whatever the query string holds, getUrlParams returns a page that is
\* at least 1 and a page size of 12, 24 or 48, and the request the listing
\* page builds passes the validation of page and page_size.
C29_UrlParamsAreValid ==
    mounted =>
        /\ getUrlParams(searchParams, urlSync).page >= 1
        /\ getUrlParams(searchParams, urlSync).pageSize \in {12, 24, 48}
        /\ validateGetTendersRequest(tendersRequest) = <<>>

\* C24: a release without closing date gets the publication instant plus 30
\* days as closing timestamp, and the same one every time it is normalized.
C24_ClosingDefaultsFromPublication ==
    rawRelease.endDate = NoDate /\ date_closing # NoDate =>
        /\ date_closing = releaseDate + ThirtyDays
        /\ prevClosing # NoDate => prevClosing = date_closing

\* the failures after which withRetry tries again
Retryable(error) ==
    /\ error.class # "ValidationError"
    /\ ~(error.class = "ApiError" /\ error.status \in 400..499)
    /\ isNetworkError(error) \/ (error.class = "ApiError" /\ error.status >= 500)

\* withRetry has returned or thrown
RetryEnded == retryPc \in {"returned", "thrown"}

\* C27: withRetry ends; the operation is invoked at most maxRetries + 1
\* times and never again once withRetry has ended; a return follows the first
\* attempt that succeeded; and when the last of the attempts failed with a
\* retryable error, as all before it, all maxRetries + 1 attempts were made
\* and a NetworkError is thrown whose message ends with that of the last error.
C27_RetryEndsWithinLimit ==
    /\ [](invoked <= maxRetries + 1)
    /\ [](retryPc = "returned" => invoked = attempt + 1 /\ thrown = NoError)
    /\ [](retryPc = "thrown" /\ Retryable(caught) =>
              /\ invoked = maxRetries + 1
              /\ thrown.class = "NetworkError"
              /\ Len(thrown.message) > Len(caught.message)
              /\ SubSeq(thrown.message,
                        Len(thrown.message) - Len(caught.message) + 1,
                        Len(thrown.message)) = caught.message)
    /\ [][RetryEnded => invoked' = invoked]_vars
    /\ <>RetryEnded

\* three attempts were allowed, all three failed with retryable errors, and a
\* NetworkError was thrown
C27_Witness ==
    /\ retryPc = "thrown"
    /\ maxRetries = 2
    /\ invoked = 3
    /\ Retryable(caught)
    /\ thrown.class = "NetworkError"

\* C30: a step of an upsert leaves every stored tender its id, its ocid and
\* its creation timestamp; it leaves the whole row of every tender whose ocid
\* it does not write, and the documents of every tender but the one whose
\* upsertTender call is under way.
C30_UpsertFrame ==
    [][\A row \in tenders :
          /\ \E new \in tenders' :
                /\ new.id = row.id
                /\ new.ocid = row.ocid
                /\ new.created_at = row.created_at
                /\ lastWriteAt'[row.ocid] = lastWriteAt[row.ocid] => new = row
          /\ DocsOf(tender_documents', row.id) # DocsOf(tender_documents, row.id) =>
                \E r \in Runs :
                    /\ pc[r] \in {"delete", "insert"}
                    /\ tenderData[r].ocid = row.ocid
                    /\ tenderId[r] = row.id]_vars

\* a stored tender was upserted again and completed, next to a tender of
\* another ocid: it has its first id and an update later than its creation
C30_Witness ==
    /\ lastCall.existed /\ ~lastCall.raised
    /\ lastCall.docsAfter # EmptyBag
    /\ \E row \in tenders :
           /\ row.ocid = lastCall.data.ocid
           /\ row.id = 1
           /\ row.created_at = 1
           /\ row.updated_at > 2
    /\ \E other \in tenders : other.ocid # lastCall.data.ocid

AllSettled(r) ==
    \A i \in DOMAIN results[r] : results[r][i] \in {"fulfilled", "rejected"}

\* C25: a run whose fetch succeeded ends with the report, made when every
\* fetched release has been processed; within a run a processed release is
\* not processed again and nothing is processed after the run has answered;
\* and as long as the calls return, a run whose fetch succeeded ends.
C25_LinearRun ==
    /\ [](\A r \in Runs :
            pc[r] = "done" /\ fetchResult[r] = "ok" =>
                response[r].status = 200 /\ AllSettled(r))
    /\ [][\A r \in Runs :
            syncsLeft' = syncsLeft =>
                /\ \A i \in DOMAIN results[r] :
                      results[r][i] \in {"fulfilled", "rejected"} =>
                          results'[r][i] = results[r][i]
                /\ pc[r] = "done" =>
                      /\ results'[r] = results[r]
                      /\ active = {r} => UNCHANGED <<tenders, tender_documents>>]_vars
    /\ \A r \in Runs : fetchResult[r] = "ok" ~> pc[r] = "done"

\* C26: when two overlapping upsertTender calls for the same ocid have both
\* returned (no step of either failed), the documents of the tender are the
\* document list of exactly one of the two calls: never the union of both
\* lists and never a document twice.
C26_OneListSurvives ==
    ( /\ prevCall.variant = "loop" /\ lastCall.variant = "loop"
      /\ prevCall.run # 0 /\ lastCall.run # prevCall.run
      /\ prevCall.overlapped
      /\ prevCall.data.ocid = lastCall.data.ocid
      /\ ~prevCall.raised /\ ~lastCall.raised
      /\ ~prevCall.stepFailed /\ ~lastCall.stepFailed )
    => lastCall.docsAfter \in { BagOfSeq(prevCall.data.documents),
                                BagOfSeq(lastCall.data.documents) }

====
